---- MODULE Spec2Model ----
(***************************************************************************)
(* A model of the rollout engine of ppo_and_friends (src/ppo.py) and of    *)
(* the environment wrappers it drives (src/environments/                   *)
(* general_wrappers.py).                                                   *)
(*                                                                         *)
(*   Spec         PPO.rollout: the stepping loop of every worker, the      *)
(*                termination / truncation / rollout-cap handling and the  *)
(*                collective update of the training status.                *)
(*   SpecWrapper  MultiAgentWrapper: step, reset, soft_reset with the      *)
(*                observation cache and death masking.                     *)
(*   SpecSpace    MultiAgentWrapper._get_refined_space and _refine_obs as  *)
(*                functions of the per-agent spaces.                       *)
(*                                                                         *)
(* The workers of the MPI group share nothing but the collectives at the   *)
(* end of the rollout, so Spec runs the workers' loops one after the other *)
(* (rank 1, then rank 2, ...) and combines their contributions when the    *)
(* last one has left its loop.                                             *)
(***************************************************************************)
EXTENDS Integers, Sequences, FiniteSets, TLC

(***************************************************************************)
(* Bounds of the model.                                                    *)
(***************************************************************************)
MaxProcs == 2      \* number of MPI workers: 1 .. MaxProcs
MaxTs    == 3      \* configured ts_per_rollout: 1 .. MaxTs
MaxEpTs  == 2      \* max_ts_per_ep: 1 .. MaxEpTs

\* The environment batch sizes (envs_per_proc) tried; the largest one is
\* run with a single worker and a single agent.
EnvBatchSizes == {1, 2, 3}

(***************************************************************************)
(* Agents and policies of the rollout.  AgentOrder is the iteration order  *)
(* of the dictionaries the environment returns; its head is the            *)
(* "first agent" of verify_truncated and get_terminated_envs.              *)
(***************************************************************************)
AgentOrder == <<"a1", "a2">>
AllAgents  == {AgentOrder[k] : k \in 1..Len(AgentOrder)}
Policies   == {"p1", "p2"}

\* The policy mappings tried: one policy shared by all agents, or one each.
PolicyMaps == {[a \in AllAgents |-> "p1"],
               [a \in AllAgents |-> IF a = AgentOrder[1] THEN "p1" ELSE "p2"]}


VARIABLES
    \* ---- configuration of the trainer (PPO.__init__)
    num_procs,        \* comm.Get_size()
    orig_ts,          \* the ts_per_rollout handed to the constructor
    ts_per_rollout,   \* self.ts_per_rollout: the share of one worker
    envs_per_proc,    \* environment batch size of every worker
    max_ts_per_ep,
    policy_mapping_fn,
    agent_ids,        \* env.agent_ids: the agents, in dictionary order
    \* ---- the worker whose loop is running, and its locals in rollout()
    pc,               \* "idle", "loop", "done", "failed"
    rank,
    total_rollout_ts,
    total_episodes,   \* a rational <<numerator, denominator>>
    ep_ts,
    episode_lengths,
    \* ---- the environment of the running worker
    masked,           \* per index: the agents that are death-masked
    quiet,            \* no index was reported terminated or truncated so far
    \* ---- what the last step received and did
    reported,         \* terminated / truncated as returned by env.step
    terminated,       \* terminated after verify_truncated
    flushes,          \* the end_episodes calls of the last step
    \* ---- the policies' datasets of the running worker
    records,          \* per policy: transition records appended
    active_ts,        \* per policy: agent-timesteps that were not death-masked
    \* ---- the collectives and the status
    reduced,          \* contributions of the workers that left their loop
    status,           \* status_dict["general"]
    \* ---- MultiAgentWrapper (SpecWrapper)
    need_agent_ids,
    death_mask,
    need_hard_reset,
    obs_cache,        \* <<>> stands for None
    last_call,        \* the last call of reset / soft_reset / step
    prev_call,        \* the call before it
    step_out,         \* what the last step computed
    \* ---- MultiAgentWrapper._get_refined_space (SpecSpace)
    multi_agent_space,
    add_ids,
    refined_space,
    refined_obs,
    \* ---- the reward pipeline of one rollout step (SpecReward)
    ext_reward_weight,
    enable_icm,       \* per policy
    reward_in,        \* what the step received: rewards, info, ICM output
    reward_out,       \* what the step stored and accumulated
    \* ---- PPO.learn on every worker (SpecLearn)
    learn_cfg,        \* epochs_per_iter, batch_size, normalize_adv, ...
    workers,          \* per rank: position in learn and its locals
    group,            \* the process group: running or aborted, and by whom
    \* ---- PPO.get_policy_batches / actions / values (SpecGather)
    gather_in,   \* the observation dictionary, the policies, envs_per_proc
    gather_out,  \* what the three methods returned
    \* ---- construction, pickling, save and load (SpecTrainer)
    run,   \* the worker group and the arguments of the constructor
    trainer,   \* the PPO object of a worker
    files,  \* state_path: the status files on disk
    \* ---- the datasets of the policies through learn()
    learner,   \* learn(): configuration and position of one worker
    datasets,  \* the dataset of every policy and the calls made on it
    \* ---- the statistics of a rollout and their reduction
    stats,   \* rollout(): the run statistics of every worker
    general,  \* status_dict["general"]
    \* ---- the episode scores of a rollout
    score   \* rollout(): the episode scores of one policy at one environment index

rolloutVars == <<num_procs, orig_ts, ts_per_rollout, envs_per_proc,
                 max_ts_per_ep, policy_mapping_fn, agent_ids, pc, rank,
                 total_rollout_ts, total_episodes, ep_ts, episode_lengths,
                 masked, quiet, reported, terminated, flushes, records, active_ts,
                 reduced, status>>

wrapperVars == <<need_agent_ids, death_mask, need_hard_reset, obs_cache,
                 last_call, prev_call, step_out>>

spaceVars == <<multi_agent_space, add_ids, refined_space, refined_obs>>

rewardVars == <<ext_reward_weight, enable_icm, reward_in, reward_out>>

learnVars == <<learn_cfg, workers, group>>

gatherVars == <<gather_in, gather_out>>

trainerVars == <<run, trainer, files>>

dataVars == <<learner, datasets>>

statsVars == <<stats, general>>

scoreVars == <<score>>

vars == <<rolloutVars, wrapperVars, spaceVars, rewardVars, learnVars,
         gatherVars,
         trainerVars,
         dataVars,
         statsVars,
         scoreVars>>

(***************************************************************************)
(* Rationals: total_episodes is a float that takes fractional values at    *)
(* the rollout cap.                                                        *)
(***************************************************************************)
RECURSIVE GCD(_, _)
GCD(a, b) == IF b = 0 THEN a ELSE GCD(b, a % b)

Rat(n, d) == LET g == GCD(n, d) IN <<n \div g, d \div g>>

RatAdd(x, y) == Rat(x[1] * y[2] + y[1] * x[2], x[2] * y[2])

RatOfInt(n) == <<n, 1>>

RECURSIVE SumOver(_, _)
SumOver(f, S) ==
    IF S = {} THEN 0
    ELSE LET x == CHOOSE y \in S : TRUE IN f[x] + SumOver(f, S \ {x})

Max(a, b) == IF a >= b THEN a ELSE b

WhereTrue(flags) == {i \in DOMAIN flags : flags[i]}

Agents == {agent_ids[k] : k \in 1..Len(agent_ids)}

FirstAgent == agent_ids[1]

AgentsOf(policy_id) == {a \in Agents : policy_mapping_fn[a] = policy_id}

Envs == 1..envs_per_proc

(***************************************************************************)
(* PPO.__init__: the timesteps of a rollout are divided among the workers. *)
(***************************************************************************)
TsPerRankNoDivision(ts, procs) == ts

TsPerRank(ts, procs) == ts \div procs

(***************************************************************************)
(* MultiAgentWrapper._refine_dones, the flags: the environment is done     *)
(* only when all agents are; with death masking a partly done environment  *)
(* reports no agent as done.                                               *)
(***************************************************************************)
RefineDonesFlags(agents_done, mask) ==
    LET all_done == \A a \in DOMAIN agents_done : agents_done[a]
    IN  [all_done |-> all_done,
         dones    |-> IF all_done \/ ~mask THEN agents_done
                      ELSE [a \in DOMAIN agents_done |-> FALSE]]

(***************************************************************************)
(* env.step as the rollout sees it: per environment index the wrapper      *)
(* turns the agents' done flags into an all-or-nothing terminated flag     *)
(* ("we always death mask", ppo.py), resets an index whose agents are all  *)
(* done, and masks the done agents of the others.                          *)
(***************************************************************************)
EnvStep(agents_done) ==
    [terminated |->
        [a \in Agents |->
            [i \in DOMAIN agents_done |->
                RefineDonesFlags(agents_done[i], TRUE).dones[a]]],
     masked |->
        [i \in DOMAIN agents_done |->
            IF RefineDonesFlags(agents_done[i], TRUE).all_done THEN {}
            ELSE WhereTrue(agents_done[i])]]

(***************************************************************************)
(* PPO.verify_truncated.  The indices truncated for the first agent are    *)
(* taken as the truncated indices; every agent's terminated flag is        *)
(* cleared there, and every agent must be truncated there.  The loop over  *)
(* the agents stops at the first agent failing the assertion; the agents   *)
(* after it keep their terminated flags.                                   *)
(***************************************************************************)
AssertFailsAt(truncated_in, where_truncated) ==
    {k \in 1..Len(agent_ids) :
        \E i \in where_truncated : ~truncated_in[agent_ids[k]][i]}

AgentIndex(a) == CHOOSE k \in 1..Len(agent_ids) : agent_ids[k] = a

VerifyTruncatedKeepsTerminated(terminated_in, truncated_in) ==
    LET where_truncated == WhereTrue(truncated_in[FirstAgent])
    IN  [ok              |-> AssertFailsAt(truncated_in, where_truncated) = {},
         where_truncated |-> where_truncated,
         terminated      |-> terminated_in]

VerifyTruncated(terminated_in, truncated_in) ==
    LET where_truncated == WhereTrue(truncated_in[FirstAgent])
        failing == AssertFailsAt(truncated_in, where_truncated)
        visited(a) == \A k \in failing : AgentIndex(a) <= k
    IN  [ok              |-> failing = {},
         where_truncated |-> where_truncated,
         terminated      |->
            [a \in Agents |->
                [i \in DOMAIN terminated_in[a] |->
                    terminated_in[a][i]
                    /\ ~(visited(a) /\ i \in where_truncated)]]]

(***************************************************************************)
(* PPO.get_terminated_envs: the first agent's flags decide.                *)
(***************************************************************************)
GetTerminatedEnvs(terminated_in) ==
    [where_term     |-> WhereTrue(terminated_in[FirstAgent]),
     where_not_term |-> {i \in DOMAIN terminated_in[FirstAgent] :
                            ~terminated_in[FirstAgent][i]}]

(***************************************************************************)
(* The end_episodes calls of one step, one record per agent and index.     *)
(* Case 1 (terminated): terminal, ending value and reward np.zeros.        *)
(* Cases 2 and 3 (episode cap, truncation, rollout cap): not terminal,     *)
(* ending value next_value = critic(next critic observation), ending       *)
(* reward the same value, to which the surprise of the agent's intrinsic   *)
(* reward is added when its policy has ICM enabled.                        *)
(***************************************************************************)
TerminalFlushesBootstrapped(where_term) ==
    {[agent |-> a, env |-> i, terminal |-> TRUE,
      ending_value |-> "next_value", ending_reward |-> "next_reward"] :
        a \in Agents, i \in where_term}

TerminalFlushes(where_term) ==
    {[agent |-> a, env |-> i, terminal |-> TRUE,
      ending_value |-> "zeros", ending_reward |-> "zeros"] :
        a \in Agents, i \in where_term}

NextReward(a) ==
    IF enable_icm[policy_mapping_fn[a]] THEN "next_value_plus_surprise"
    ELSE "next_value"

BootstrapFlushesOf(agents, where_maxed) ==
    {[agent |-> a, env |-> i, terminal |-> FALSE,
      ending_value |-> "next_value", ending_reward |-> NextReward(a)] :
        a \in agents, i \in where_maxed}

BootstrapFlushes(where_maxed) == BootstrapFlushesOf(Agents, where_maxed)

(***************************************************************************)
(* next_reward[agent_id] += surprise.flatten(): next_reward[agent_id] has  *)
(* one entry per environment index and the surprise one per index of       *)
(* where_maxed, so that the in-place addition broadcasts only when         *)
(* where_maxed holds one index or all of them, and raises a ValueError     *)
(* otherwise.  The loop runs over the agents in the order of the           *)
(* dictionary of get_policy_values, policy by policy; the agents before    *)
(* the first agent of a policy with ICM have been flushed when it raises.  *)
(***************************************************************************)
PolicyOrder == <<"p1", "p2">>

PolicyPosition(p) == CHOOSE k \in 1..Len(PolicyOrder) : PolicyOrder[k] = p

SurpriseBroadcasts(where_maxed) ==
    Cardinality(where_maxed) \in {1, envs_per_proc}

SurpriseRaises(where_maxed) ==
    /\ where_maxed # {}
    /\ \E a \in Agents : enable_icm[policy_mapping_fn[a]]
    /\ ~SurpriseBroadcasts(where_maxed)

FlushedBeforeRaise ==
    {a \in Agents :
        \A b \in Agents :
            enable_icm[policy_mapping_fn[b]] =>
                PolicyPosition(policy_mapping_fn[a])
                    < PolicyPosition(policy_mapping_fn[b])}

(***************************************************************************)
(* Cases 2 and 3 of the loop: is the block entered, and which indices are  *)
(* flushed.  ep_ts_in is ep_ts after the terminated indices were reset.    *)
(***************************************************************************)
CapReached(ts) == ts >= ts_per_rollout

MaxedBlockEntered(ep_ts_in, ts, where_not_term, where_truncated) ==
    \/ (\E i \in Envs : ep_ts_in[i] = max_ts_per_ep) /\ where_not_term # {}
    \/ CapReached(ts)
    \/ where_truncated # {}

WhereMaxedAtEpisodeCapOnly(ep_ts_in, ts, where_term, where_truncated) ==
    ({i \in Envs : ep_ts_in[i] >= max_ts_per_ep} \ where_term)
        \cup where_truncated

WhereMaxedStrictlyAbove(ep_ts_in, ts, where_term, where_truncated) ==
    LET where_maxed == IF CapReached(ts) THEN Envs
                       ELSE {i \in Envs : ep_ts_in[i] > max_ts_per_ep}
    IN  (where_maxed \ where_term) \cup where_truncated

WhereMaxedKeepsTerminated(ep_ts_in, ts, where_term, where_truncated) ==
    LET where_maxed == IF CapReached(ts) THEN Envs
                       ELSE {i \in Envs : ep_ts_in[i] >= max_ts_per_ep}
    IN  where_maxed \cup where_truncated

WhereMaxed(ep_ts_in, ts, where_term, where_truncated) ==
    LET where_maxed == IF CapReached(ts) THEN Envs
                       ELSE {i \in Envs : ep_ts_in[i] >= max_ts_per_ep}
    IN  (where_maxed \ where_term) \cup where_truncated

(***************************************************************************)
(* The episode count at the rollout cap: every open episode is counted as  *)
(* the fraction episode_length / avg_ep_len of an episode.                 *)
(***************************************************************************)
RatDiv(x, y) == Rat(x[1] * y[2], x[2] * y[1])

RECURSIVE RatSum(_, _)
RatSum(f, S) ==
    IF S = {} THEN RatOfInt(0)
    ELSE LET x == CHOOSE y \in S : TRUE IN RatAdd(f[x], RatSum(f, S \ {x}))

EpisodesAtCapPerSegment(episodes, lengths) ==
    RatAdd(episodes,
           RatOfInt(SumOver([i \in DOMAIN lengths |->
                                lengths[i] \div max_ts_per_ep],
                            DOMAIN lengths)))

EpisodesAtCapOverRolloutLength(episodes, lengths) ==
    LET avg_ep_len == RatOfInt(ts_per_rollout)
        ep_perc    == [i \in DOMAIN lengths |->
                          RatDiv(RatOfInt(lengths[i]), avg_ep_len)]
    IN  RatAdd(episodes, RatSum(ep_perc, DOMAIN lengths))

EpisodesAtCapCompletedOnly(episodes, lengths) == episodes

AvgEpLen(cap, env_batch_size, episodes, lengths) ==
    LET combined_ep_len == SumOver(lengths, DOMAIN lengths)
        ts_before_ep    == Max(cap - combined_ep_len, 0)
        current_total   == IF episodes = RatOfInt(0) THEN RatOfInt(1)
                           ELSE episodes
    IN  IF ts_before_ep = 0
        THEN Rat(combined_ep_len, env_batch_size)
        ELSE RatDiv(RatOfInt(ts_before_ep), current_total)

EpisodesAtCapOf(cap, env_batch_size, episodes, lengths) ==
    LET avg_ep_len == AvgEpLen(cap, env_batch_size, episodes, lengths)
        ep_perc    == [i \in DOMAIN lengths |->
                          RatDiv(RatOfInt(lengths[i]), avg_ep_len)]
    IN  RatAdd(episodes, RatSum(ep_perc, DOMAIN lengths))

EpisodesAtCap(episodes, lengths) ==
    EpisodesAtCapOf(ts_per_rollout, envs_per_proc, episodes, lengths)

(***************************************************************************)
(* The add_episode_info calls of one step: one call per agent of the       *)
(* action dictionary, each carrying one row per environment index.         *)
(***************************************************************************)
AgentsRecordedUnmasked(masked_in) ==
    [a \in Agents |-> {i \in DOMAIN masked_in : a \notin masked_in[i]}]

AgentsRecorded(masked_in) ==
    [a \in Agents |-> DOMAIN masked_in]

\* Policy.add_episode_info appends one transition record per row.
AddEpisodeInfo(count, rows) == count + Cardinality(rows)

(***************************************************************************)
(* The state of the rollout specification.                                 *)
(***************************************************************************)
NoFlags == [a \in Agents |-> [i \in Envs |-> FALSE]]

\* rollout(), up to the loop: the locals of a worker entering its loop.
EnterLoop ==
    /\ total_rollout_ts' = 0
    /\ total_episodes'   = RatOfInt(0)
    /\ ep_ts'            = [i \in Envs |-> 0]
    /\ episode_lengths'  = [i \in Envs |-> 0]
    /\ masked'           = [i \in Envs |-> {}]
    /\ quiet'            = TRUE
    /\ reported'         = [terminated |-> NoFlags, truncated |-> NoFlags]
    /\ terminated'       = NoFlags
    /\ flushes'          = {}
    /\ records'          = [p \in Policies |-> 0]
    /\ active_ts'        = [p \in Policies |-> 0]

configVars == <<num_procs, orig_ts, ts_per_rollout, envs_per_proc,
                max_ts_per_ep, policy_mapping_fn, agent_ids>>

InitRollout ==
    /\ num_procs         \in 1..MaxProcs
    /\ orig_ts           \in 1..MaxTs
    /\ ts_per_rollout    = TsPerRank(orig_ts, num_procs)
    /\ envs_per_proc     \in EnvBatchSizes
    /\ max_ts_per_ep     \in 1..MaxEpTs
    /\ policy_mapping_fn \in PolicyMaps
    /\ agent_ids         \in {SubSeq(AgentOrder, 1, n) : n \in 1..Len(AgentOrder)}
    /\ envs_per_proc = 3 => (num_procs = 1 /\ Len(agent_ids) = 1)
    /\ pc                = "idle"
    /\ rank              = 1
    /\ total_rollout_ts  = 0
    /\ total_episodes    = RatOfInt(0)
    /\ ep_ts             = [i \in Envs |-> 0]
    /\ episode_lengths   = [i \in Envs |-> 0]
    /\ masked            = [i \in Envs |-> {}]
    /\ quiet             = TRUE
    /\ reported          = [terminated |-> NoFlags, truncated |-> NoFlags]
    /\ terminated        = NoFlags
    /\ flushes           = {}
    /\ records           = [p \in Policies |-> 0]
    /\ active_ts         = [p \in Policies |-> 0]
    /\ reduced           = [timesteps |-> 0, episodes |-> RatOfInt(0)]
    /\ status            = [timesteps |-> 0, total_episodes |-> RatOfInt(0)]

\* rollout() is called on every worker; rank 1 enters its loop.
RolloutBegin ==
    /\ pc = "idle"
    /\ pc' = "loop"
    /\ EnterLoop
    /\ UNCHANGED <<configVars, rank, reduced, status>>

(***************************************************************************)
(* One iteration of the while loop of rollout() on the running worker.     *)
(* agents_done are the done flags of the agents in every environment of    *)
(* the batch, truncated_in the truncated dictionary of env.step.           *)
(***************************************************************************)
LoopBody(agents_done, truncated_in) ==
    \E env \in {EnvStep(agents_done)} :
    \E verified \in {VerifyTruncated(env.terminated, truncated_in)} :
    \E term \in {GetTerminatedEnvs(verified.terminated)} :
    \E ts \in {total_rollout_ts + envs_per_proc} :
    \E ep_ts_1 \in {[i \in Envs |-> ep_ts[i] + 1]} :
    \E lengths_1 \in {[i \in Envs |-> episode_lengths[i] + 1]} :
        /\ total_rollout_ts' = ts
        /\ masked'     = env.masked
        /\ quiet'      = (quiet /\ \A a \in Agents, i \in Envs :
                              ~env.terminated[a][i] /\ ~truncated_in[a][i])
        /\ reported'   = [terminated |-> env.terminated,
                          truncated  |-> truncated_in]
        /\ terminated' = verified.terminated
        /\ IF ~verified.ok
           THEN \* the assertion of verify_truncated fails
                /\ pc' = "failed"
                /\ ep_ts' = ep_ts_1
                /\ episode_lengths' = lengths_1
                /\ flushes' = {}
                /\ UNCHANGED <<total_episodes, records, active_ts>>
           ELSE \* case 1: the terminated indices
                \E ep_ts_2 \in {[i \in Envs |->
                        IF i \in term.where_term THEN 0 ELSE ep_ts_1[i]]} :
                \E lengths_2 \in {[i \in Envs |->
                        IF i \in term.where_term THEN 0 ELSE lengths_1[i]]} :
                \E episodes_2 \in {RatAdd(total_episodes,
                        RatOfInt(Cardinality(term.where_term)))} :
                \* cases 2 and 3: episode cap, truncation, rollout cap
                \E entered \in {MaxedBlockEntered(ep_ts_2, ts,
                        term.where_not_term, verified.where_truncated)} :
                \E where_maxed \in {IF entered
                        THEN WhereMaxed(ep_ts_2, ts, term.where_term,
                                        verified.where_truncated)
                        ELSE {}} :
                \E rows \in {AgentsRecorded(masked)} :
                \E raises \in {SurpriseRaises(where_maxed)} :
                /\ pc' = IF raises THEN "failed" ELSE "loop"
                /\ records' =
                     [p \in Policies |->
                        SumOver([a \in Agents |->
                                    AddEpisodeInfo(0, rows[a])],
                                AgentsOf(p)) + records[p]]
                /\ active_ts' =
                     [p \in Policies |->
                        active_ts[p]
                        + SumOver([a \in Agents |->
                              Cardinality({i \in Envs : a \notin masked[i]})],
                              AgentsOf(p))]
                /\ flushes' = TerminalFlushes(term.where_term)
                      \cup (IF raises
                            THEN BootstrapFlushesOf(FlushedBeforeRaise,
                                                    where_maxed)
                            ELSE BootstrapFlushes(where_maxed))
                /\ episode_lengths' = lengths_2
                /\ total_episodes' =
                     IF entered /\ CapReached(ts) /\ ~raises
                     THEN EpisodesAtCap(episodes_2, lengths_2)
                     ELSE episodes_2
                /\ ep_ts' = [i \in Envs |->
                                IF i \in where_maxed /\ ~raises
                                THEN 0 ELSE ep_ts_2[i]]

LoopContinuesInclusive(ts) == ts <= ts_per_rollout

LoopContinuesOneMoreBatch(ts) == ts < ts_per_rollout + envs_per_proc

LoopContinues(ts) == ts < ts_per_rollout

RolloutStep ==
    /\ pc = "loop"
    /\ LoopContinues(total_rollout_ts)
    /\ \E agents_done \in [Envs -> [Agents -> BOOLEAN]],
          truncated_in \in [Agents -> [Envs -> BOOLEAN]] :
            LoopBody(agents_done, truncated_in)
    /\ UNCHANGED <<configVars, rank, reduced, status>>

(***************************************************************************)
(* The running worker has left its loop: its total_rollout_ts and          *)
(* total_episodes enter the allreduce(SUM) calls.  While workers remain,   *)
(* the next one runs its loop; when the last one has contributed, every    *)
(* worker adds the sums to its status.                                     *)
(***************************************************************************)
Contribute ==
    [timesteps |-> reduced.timesteps + total_rollout_ts,
     episodes  |-> RatAdd(reduced.episodes, total_episodes)]

NextWorker ==
    /\ pc = "loop"
    /\ ~LoopContinues(total_rollout_ts)
    /\ rank < num_procs
    /\ rank' = rank + 1
    /\ reduced' = Contribute
    /\ EnterLoop
    /\ UNCHANGED <<configVars, pc, status>>

UpdateStatus ==
    /\ pc = "loop"
    /\ ~LoopContinues(total_rollout_ts)
    /\ rank = num_procs
    /\ reduced' = Contribute
    /\ status' = [status EXCEPT
                     !.timesteps = @ + Contribute.timesteps,
                     !.total_episodes = RatAdd(@, Contribute.episodes)]
    /\ pc' = "done"
    /\ UNCHANGED <<configVars, rank, total_rollout_ts, total_episodes,
                   ep_ts, episode_lengths, masked, quiet, reported,
                   terminated, flushes, records, active_ts>>

(***************************************************************************)
(* MultiAgentWrapper._get_refined_space.                                   *)
(*                                                                         *)
(* A space is [type, dtype, size]: size is shape[0] of a Box and n of a    *)
(* Discrete or MultiBinary space.  The outcome is "ok" (a space is         *)
(* returned), "abort" (comm.Abort(): the fatal group abort) or "error"     *)
(* (a Python exception raised by the statement named in the comment).      *)
(***************************************************************************)
BoxSizes == {2, 3, 5}

SpaceUniverse ==
    {[type |-> "Box", dtype |-> d, size |-> n] :
        d \in {"float32", "float64"}, n \in BoxSizes}
    \cup {[type |-> "Discrete", dtype |-> "int64", size |-> n] : n \in {2, 3}}
    \cup {[type |-> "MultiBinary", dtype |-> "int8", size |-> 2]}

\* The first loop: "ensure that each agent has the same type of space".
\* st holds space_type, prev_space_type, dtype, prev_dtype ("None" at first).
RECURSIVE CheckSpaceTypes(_, _, _)
CheckSpaceTypes(spaces, k, st) ==
    IF k > Len(spaces)
    THEN [abort |-> FALSE, space_type |-> st.space_type, dtype |-> st.dtype]
    ELSE LET cur == IF st.space_type = "None"
                    THEN [space_type      |-> spaces[k].type,
                          prev_space_type |-> spaces[k].type,
                          dtype           |-> spaces[k].dtype,
                          prev_dtype      |-> spaces[k].dtype]
                    ELSE st
         IN  IF cur.prev_space_type # cur.space_type
                \/ cur.prev_dtype # cur.dtype
             THEN [abort |-> TRUE, space_type |-> cur.space_type,
                   dtype |-> cur.dtype]
             ELSE CheckSpaceTypes(spaces, k + 1,
                      [prev_space_type |-> cur.space_type,
                       space_type      |-> spaces[k].type,
                       prev_dtype      |-> cur.dtype,
                       dtype           |-> spaces[k].dtype])

\* The second loop: pad low / high to the size of each space, take the
\* maximum size.  low_size is low.size, count the running maximum.
RECURSIVE PadSpaces(_, _, _, _, _)
PadSpaces(spaces, k, space_type, low_size, count) ==
    IF k > Len(spaces) THEN [outcome |-> "ok", count |-> count]
    ELSE IF space_type = "Box"
    THEN IF spaces[k].type # "Box"
         THEN \* Discrete.shape is (): shape[0] raises; MultiBinary has no high
              [outcome |-> "error", count |-> count]
         ELSE IF spaces[k].size - low_size < 0
         THEN \* np.pad(low, (0, diff)) raises for a negative diff
              [outcome |-> "error", count |-> count]
         ELSE PadSpaces(spaces, k + 1, space_type, spaces[k].size,
                        Max(count, spaces[k].size))
    ELSE IF space_type = "Discrete"
    THEN IF spaces[k].type = "Box"
         THEN \* Box has no attribute n
              [outcome |-> "error", count |-> count]
         ELSE PadSpaces(spaces, k + 1, space_type, low_size,
                        Max(count, spaces[k].size))
    ELSE \* "not currently supported": comm.Abort()
         [outcome |-> "abort", count |-> count]

NoSpace == [outcome |-> "none", type |-> "None", dtype |-> "None",
            shape |-> 0, size |-> 0]

GetRefinedSpace(spaces, ids) ==
    LET checked == CheckSpaceTypes(spaces, 1,
                       [space_type |-> "None", prev_space_type |-> "None",
                        dtype |-> "None", prev_dtype |-> "None"])
        padded  == PadSpaces(spaces, 1, checked.space_type, 0, 0)
        extra   == IF ids THEN 1 ELSE 0
    IN  IF checked.abort THEN [NoSpace EXCEPT !.outcome = "abort"]
        ELSE IF padded.outcome # "ok"
        THEN [NoSpace EXCEPT !.outcome = padded.outcome]
        ELSE IF checked.space_type = "Box"
        THEN [outcome |-> "ok", type |-> "Box", dtype |-> checked.dtype,
              shape |-> padded.count + extra, size |-> padded.count + extra]
        ELSE [outcome |-> "ok", type |-> "Discrete", dtype |-> "int64",
              shape |-> padded.count + extra, size |-> 1]

(***************************************************************************)
(* MultiAgentWrapper._refine_obs: stack the agents' observations, prepend  *)
(* the agent ids, zero pad the rows up to the observation space.  obs is a *)
(* sequence of rows, one per agent; np.stack raises when the rows differ   *)
(* in length.  The id of agent k of n is (k - 1) / n (normalize_ids); the   *)
(* model keeps its numerator, n being the same for every agent.            *)
(***************************************************************************)
SetMax(S) == CHOOSE x \in S : \A y \in S : y <= x

Zeros(n) == [c \in 1..n |-> 0]

AgentId(k) == k - 1

RefineObs(obs, ids, space_shape) ==
    IF \E j, k \in DOMAIN obs : Len(obs[j]) # Len(obs[k])
    THEN [ok |-> FALSE, obs |-> <<>>]
    ELSE [ok  |-> TRUE,
          obs |-> [k \in DOMAIN obs |->
                     LET row == IF ids THEN <<AgentId(k)>> \o obs[k]
                                ELSE obs[k]
                     IN  IF space_shape - Len(row) > 0
                         THEN row \o Zeros(space_shape - Len(row))
                         ELSE row]]

(***************************************************************************)
(* MultiAgentWrapper._refine_dones with the observations: death masking    *)
(* is obs[agents_done, 1:] = 0.0.                                          *)
(***************************************************************************)
DeathMaskObsAllColumns(agents_done, obs) ==
    [k \in DOMAIN obs |->
        IF agents_done[k] THEN [c \in DOMAIN obs[k] |-> 0] ELSE obs[k]]

DeathMaskObs(agents_done, obs) ==
    [k \in DOMAIN obs |->
        IF agents_done[k]
        THEN [c \in DOMAIN obs[k] |-> IF c = 1 THEN obs[k][c] ELSE 0]
        ELSE obs[k]]

RefineDones(agents_done, obs, mask) ==
    LET flags == RefineDonesFlags(agents_done, mask)
    IN  [all_done |-> flags.all_done,
         dones    |-> flags.dones,
         obs      |-> IF ~flags.all_done /\ mask
                      THEN DeathMaskObs(agents_done, obs)
                      ELSE obs]

(***************************************************************************)
(* MultiAgentWrapper over an environment of three agents, each with a Box  *)
(* observation space of two features.  The wrapped environment returns one *)
(* of EnvObservations from reset and from step.  reset and soft_reset also *)
(* return the global state, a function of the observation that no part of  *)
(* the wrapper's state depends on; it is left out.                         *)
(***************************************************************************)
WrapperAgents == 1..3

WrapperSpaces ==
    [k \in WrapperAgents |-> [type |-> "Box", dtype |-> "float32", size |-> 2]]

EnvObservations ==
    {[k \in WrapperAgents |-> <<10 * k + 1, 10 * k + 2>>],
     [k \in WrapperAgents |-> <<10 * k + 3, 10 * k + 4>>]}

\* self.observation_space, set by __init__
ObservationSpace == GetRefinedSpace(WrapperSpaces, need_agent_ids)

NoCall == [op |-> "none", obs |-> <<>>, env_reset |-> FALSE]

NoStep == [agents_done |-> <<>>, refined |-> <<>>, obs |-> <<>>,
           dones |-> <<>>, all_done |-> FALSE, terminal_obs |-> <<>>,
           reset_obs |-> <<>>, info_is_global |-> FALSE,
           info_terminal |-> <<>>]

InitWrapper ==
    /\ need_agent_ids  \in BOOLEAN
    /\ death_mask      \in BOOLEAN
    /\ need_hard_reset = TRUE
    /\ obs_cache       = <<>>
    /\ last_call       = NoCall
    /\ prev_call       = NoCall
    /\ step_out        = NoStep

\* MultiAgentWrapper.reset: the observation returned for the environment's
\* reset observation raw.
ResetObs(raw) == RefineObs(raw, need_agent_ids, ObservationSpace.shape).obs

WrapperReset ==
    /\ \E raw \in EnvObservations :
          last_call' = [op |-> "reset", obs |-> ResetObs(raw),
                        env_reset |-> TRUE]
    /\ prev_call' = last_call
    /\ UNCHANGED <<need_agent_ids, death_mask, need_hard_reset, obs_cache,
                   step_out>>

\* MultiAgentWrapper.soft_reset
WrapperSoftReset ==
    /\ IF need_hard_reset \/ obs_cache = <<>>
       THEN \E raw \in EnvObservations :
              last_call' = [op |-> "soft_reset", obs |-> ResetObs(raw),
                            env_reset |-> TRUE]
       ELSE last_call' = [op |-> "soft_reset", obs |-> obs_cache,
                          env_reset |-> FALSE]
    /\ prev_call' = last_call
    /\ UNCHANGED <<need_agent_ids, death_mask, need_hard_reset, obs_cache,
                   step_out>>

\* What soft_reset and reset can return in the current state, and whether
\* they reset the wrapped environment.
SoftResetResultAlwaysCache ==
    {[obs |-> obs_cache, env_reset |-> FALSE]}

SoftResetResult ==
    IF need_hard_reset \/ obs_cache = <<>>
    THEN {[obs |-> ResetObs(raw), env_reset |-> TRUE] :
             raw \in EnvObservations}
    ELSE {[obs |-> obs_cache, env_reset |-> FALSE]}

ResetResult ==
    {[obs |-> ResetObs(raw), env_reset |-> TRUE] : raw \in EnvObservations}

\* The start of rollout(), ppo.py lines 941-947: self.soft_resets() chooses
\* between env.soft_reset and env.reset.
RolloutStart ==
    /\ \E soft_resets \in BOOLEAN :
       \E result \in IF soft_resets THEN SoftResetResult ELSE ResetResult :
          last_call' = [op  |-> IF soft_resets THEN "rollout_soft_reset"
                                ELSE "rollout_reset",
                        obs |-> result.obs,
                        env_reset |-> result.env_reset]
    /\ prev_call' = last_call
    /\ UNCHANGED <<need_agent_ids, death_mask, need_hard_reset, obs_cache,
                   step_out>>

\* info[k]["terminal observation"] after the assignments written[k] (<<>>:
\* none for k), made in the order of the agents.  A global info, one
\* dictionary, becomes np.array([info] * num_agents): every agent's entry
\* is that dictionary and holds the observation assigned last.
InfoTerminalObs(info_is_global, written) ==
    LET assigned == {k \in WrapperAgents : written[k] # <<>>}
    IN  IF info_is_global
        THEN [k \in WrapperAgents |->
                IF assigned = {} THEN <<>> ELSE written[SetMax(assigned)]]
        ELSE written

\* MultiAgentWrapper.step: raw, agents_done and the form of info are what
\* env.step returns, reset_raw what env.reset returns when all agents are
\* done.
StepBody(raw, agents_done, reset_raw, info_is_global) ==
    \E refined \in {RefineObs(raw, need_agent_ids, ObservationSpace.shape).obs} :
    \E rd \in {RefineDones(agents_done, refined, death_mask)} :
    \E obs \in {IF rd.all_done THEN ResetObs(reset_raw) ELSE rd.obs} :
        /\ step_out' =
              [agents_done  |-> agents_done,
               refined      |-> refined,
               obs          |-> obs,
               dones        |-> rd.dones,
               all_done     |-> rd.all_done,
               terminal_obs |->
                   [k \in WrapperAgents |->
                       IF rd.all_done THEN rd.obs[k]
                       ELSE IF ~death_mask /\ rd.dones[k] THEN obs[k]
                       ELSE <<>>],
               reset_obs |->
                   IF rd.all_done THEN ResetObs(reset_raw) ELSE <<>>,
               info_is_global |-> info_is_global,
               info_terminal |->
                   InfoTerminalObs(info_is_global,
                       [k \in WrapperAgents |->
                           IF rd.all_done THEN rd.obs[k]
                           ELSE IF ~death_mask /\ rd.dones[k] THEN obs[k]
                           ELSE <<>>])]
        /\ obs_cache' = obs
        /\ need_hard_reset' = FALSE
        /\ last_call' = [op |-> "step", obs |-> obs, env_reset |-> rd.all_done]
        /\ prev_call' = last_call

WrapperStep ==
    /\ \E raw \in EnvObservations, agents_done \in [WrapperAgents -> BOOLEAN],
          info_is_global \in BOOLEAN :
       \E reset_raw \in IF \A k \in WrapperAgents : agents_done[k]
                         THEN EnvObservations ELSE {raw} :
          StepBody(raw, agents_done, reset_raw, info_is_global)
    /\ UNCHANGED <<need_agent_ids, death_mask>>

(***************************************************************************)
(* _get_refined_space and _refine_obs applied to a multi-agent space.      *)
(***************************************************************************)
MaxAgentSpaces == 3

SpaceSeqs == UNION {[1..n -> SpaceUniverse] : n \in 1..MaxAgentSpaces}

NoObs == [ok |-> FALSE, obs |-> <<>>]

InitSpace ==
    /\ multi_agent_space \in SpaceSeqs
    /\ add_ids           \in BOOLEAN
    /\ refined_space     = NoSpace
    /\ refined_obs       = NoObs

\* __init__: self.observation_space = self._get_refined_space(...)
ConstructSpace ==
    /\ refined_space.outcome = "none"
    /\ refined_space' = GetRefinedSpace(multi_agent_space, add_ids)
    /\ UNCHANGED <<multi_agent_space, add_ids, refined_obs>>

\* _refine_obs on the observations of the agents, agent k's observation
\* having the size of its own Box space.
RefineAgentObs ==
    /\ refined_space.outcome = "ok"
    /\ refined_space.type = "Box"
    /\ refined_obs = NoObs
    /\ refined_obs' =
          [RefineObs([k \in DOMAIN multi_agent_space |->
                         [c \in 1..multi_agent_space[k].size |-> 1]],
                     add_ids, refined_space.shape)
           EXCEPT !.obs = IF @ = <<>> THEN <<"ValueError">> ELSE @]
    /\ UNCHANGED <<multi_agent_space, add_ids, refined_space>>

(***************************************************************************)
(* The reward pipeline of one rollout step, for one environment index:     *)
(* get_natural_reward, apply_reward_weight, apply_intrinsic_rewards, and   *)
(* what the loop hands to add_episode_info and adds to the score.  info    *)
(* holds "natural reward" for every agent (info.present) or for none.      *)
(* intrinsic is what the policy's get_intrinsic_reward     *)
(* would return for the agent.                                             *)
(***************************************************************************)
ExtRewards  == {1, 2}
NatRewards  == {1, 3}
IntrRewards == {0, 1}
RewardWeights == {1, 2}

GetNaturalReward(info) ==
    IF info.present
    THEN [have_nat_reward |-> TRUE,  natural_reward |-> info.natural]
    ELSE [have_nat_reward |-> FALSE, natural_reward |-> <<>>]

ApplyRewardWeightTwice(rewards, weight) ==
    [a \in DOMAIN rewards |-> rewards[a] * weight * weight]

ApplyRewardWeight(rewards, weight) ==
    [a \in DOMAIN rewards |-> rewards[a] * weight]

ApplyIntrinsicRewardsAlways(ext_rewards, intrinsic) ==
    [rewards      |-> [a \in DOMAIN ext_rewards |->
                          ext_rewards[a] + intrinsic[a]],
     intr_rewards |-> intrinsic]

ApplyIntrinsicRewards(ext_rewards, intrinsic) ==
    [rewards      |-> [a \in DOMAIN ext_rewards |->
                          IF enable_icm[policy_mapping_fn[a]]
                          THEN ext_rewards[a] + intrinsic[a]
                          ELSE ext_rewards[a]],
     intr_rewards |-> [a \in DOMAIN ext_rewards |->
                          IF enable_icm[policy_mapping_fn[a]]
                          THEN intrinsic[a]
                          ELSE 0]]

NoInfo == [present |-> FALSE, natural |-> <<>>]

NoRewardIn  == [ext_reward |-> <<>>, info |-> NoInfo, intrinsic |-> <<>>]

NoRewardOut == [natural_reward |-> <<>>, weighted |-> <<>>, reward |-> <<>>,
                intr_reward |-> <<>>, stored |-> <<>>, score_added |-> <<>>]

InitReward ==
    /\ ext_reward_weight \in RewardWeights
    /\ enable_icm        \in [Policies -> BOOLEAN]
    /\ reward_in         = NoRewardIn
    /\ reward_out        = NoRewardOut

\* Lines 1029-1119 of one loop iteration, rewards only.
RewardStep ==
    /\ reward_in = NoRewardIn
    /\ \E ext_reward \in [AllAgents -> ExtRewards],
          info \in {[present |-> TRUE, natural |-> n] :
                        n \in [AllAgents -> NatRewards]} \cup {NoInfo},
          intrinsic \in [AllAgents -> IntrRewards] :
        \E nat \in {GetNaturalReward(info)} :
        \E natural_reward \in {IF nat.have_nat_reward
                               THEN nat.natural_reward
                               ELSE ext_reward} :
        \E weighted \in {ApplyRewardWeight(ext_reward, ext_reward_weight)} :
        \E applied \in {ApplyIntrinsicRewards(weighted, intrinsic)} :
            /\ reward_in' = [ext_reward |-> ext_reward, info |-> info,
                             intrinsic |-> intrinsic]
            /\ reward_out' =
                  [natural_reward |-> natural_reward,
                   weighted       |-> weighted,
                   reward         |-> applied.rewards,
                   intr_reward    |-> applied.intr_rewards,
                   stored         |-> applied.rewards,
                   score_added    |-> natural_reward]
    /\ UNCHANGED <<ext_reward_weight, enable_icm>>

\* The next iteration of the loop starts from fresh step results.
RewardReset ==
    /\ reward_in # NoRewardIn
    /\ reward_in'  = NoRewardIn
    /\ reward_out' = NoRewardOut
    /\ UNCHANGED <<ext_reward_weight, enable_icm>>

(***************************************************************************)
(* PPO.learn, run by every worker of the group (SPMD).  Each worker has    *)
(* its own position and locals; the workers meet only in the collectives   *)
(* (allreduce, mpi_avg_gradients, barrier), which complete when every      *)
(* worker has entered the same one.  The code a worker runs between two    *)
(* collectives touches only its own memory and is one action.  Back to     *)
(* back collectives with no branch between them are one site:              *)
(* "rollout_reduce" is lines 1319-1411, "save" the two barriers of save(), *)
(* "ppo_reduce" lines 1740-1744, "icm_reduce" lines 1793-1794.             *)
(* A minibatch yields one KL value per worker, and may yield a NaN         *)
(* advantage std or NaN / Inf ratios.  The learning rate schedule is a     *)
(* function of the status: the rates sum to zero from iteration lr_end on  *)
(* (0: never).  save_when is the default scheduler on "iteration", which   *)
(* fires in every iteration.                                               *)
(***************************************************************************)
MaxEpochs == 2
Budgets == {1, 3}

LearnProcs  == {1, 2}
LearnTs     == {1, 2, 3}
KLValues    == {0, 2}
TargetKls   == {1}
BatchSizes  == {2}
LrEnds      == {0, 1}

CollectiveSites ==
    {"rollout_reduce", "save", "actor_avg", "critic_avg", "batch_barrier",
     "ppo_reduce", "epoch_barrier", "icm_avg", "icm_barrier", "icm_reduce",
     "lr_barrier"}

Ranks == 1..num_procs

\* self.policies, in dictionary order: the policies that have agents.
LearnPolicies == SelectSeq(PolicyOrder, LAMBDA p : AgentsOf(p) # {})

NoLearnCfg ==
    [epochs_per_iter |-> 1, batch_size |-> 1, normalize_adv |-> FALSE,
     gradient_clip |-> FALSE, target_kl |-> 1,
     enable_icm |-> [p \in Policies |-> FALSE],
     num_timesteps |-> 1, lr_end |-> 0]

NoOps == [actor |-> <<>>, critic |-> <<>>, icm |-> <<>>]

ZeroStats == [p \in Policies |-> 0]

\* The locals of learn at its entry (lines 1427-1429) and the status.
NewWorker ==
    [at         |-> "while",
     iteration  |-> 0,
     timesteps  |-> 0,
     ts_max     |-> 0 + learn_cfg.num_timesteps,
     ts_before  |-> 0,
     local_ts   |-> 0,
     policy     |-> 1,
     epoch_idx  |-> 0,
     batch      |-> 1,
     total_kl   |-> 0,
     counter    |-> 0,
     ops        |-> NoOps,
     updated    |-> {},
     kl_avg     |-> [p \in Policies |-> RatOfInt(0)],
     \* history of the current iteration
     epoch_kl   |-> 0,
     epoch_n    |-> 0,
     epoch_avg  |-> [p \in Policies |-> RatOfInt(0)],
     iter_kl    |-> [p \in Policies |-> <<0, 0>>],
     ppo_epochs |-> ZeroStats,
     icm_epochs |-> ZeroStats,
     stopped    |-> ZeroStats]

\* The rollout loop of one worker: total_rollout_ts when the loop is left.
RECURSIVE RolloutTs(_)
RolloutTs(ts) ==
    IF LoopContinues(ts) THEN RolloutTs(ts + envs_per_proc) ELSE ts

\* len(dataset) of a policy: one record per agent and timestep.
DataLen(r, p) == Cardinality(AgentsOf(p)) * r.local_ts

\* DataLoader(dataset, batch_size, shuffle = True): the number of
\* minibatches and the size of minibatch b.
NumBatches(len) ==
    (len + learn_cfg.batch_size - 1) \div learn_cfg.batch_size

BatchLen(len, b) ==
    IF b < NumBatches(len) THEN learn_cfg.batch_size
    ELSE len - (NumBatches(len) - 1) * learn_cfg.batch_size

CurPolicy(r) == LearnPolicies[r.policy]

\* The first lines of _ppo_batch_train: the totals start from zero.
BeginBatchTrainKeepsTotals(r) ==
    [r EXCEPT !.batch = 1, !.epoch_kl = 0, !.epoch_n = 0, !.at = "batch"]

BeginBatchTrain(r) ==
    [r EXCEPT !.total_kl = 0, !.counter = 0, !.batch = 1,
              !.epoch_kl = 0, !.epoch_n = 0, !.at = "batch"]

\* The policy loop goes on with the next policy, or the iteration ends.
NextPolicy(r) ==
    IF r.policy < Len(LearnPolicies)
    THEN BeginBatchTrain([r EXCEPT !.policy = @ + 1, !.epoch_idx = 0])
    ELSE [r EXCEPT !.iteration = @ + 1, !.at = "lr_barrier"]

\* The epoch loop goes on with the next epoch, or is exhausted.
EpochEnd(r) ==
    IF r.epoch_idx + 1 < learn_cfg.epochs_per_iter
    THEN BeginBatchTrain([r EXCEPT !.epoch_idx = @ + 1])
    ELSE NextPolicy(r)

\* status["kl avg"] > target_kl, the average being a fraction.
KlExceeds(kl, target) == kl[1] > target * kl[2]

\* What the break of the KL early stop does.
EarlyStopContinues(r) ==
    EpochEnd([r EXCEPT !.stopped[CurPolicy(r)] = r.epoch_idx + 1])

EarlyStopAfterIcm(r) ==
    [r EXCEPT !.stopped[CurPolicy(r)] = r.epoch_idx + 1,
              !.batch = 1, !.counter = 0, !.at = "icm_batch"]

EarlyStop(r) ==
    NextPolicy([r EXCEPT !.stopped[CurPolicy(r)] = r.epoch_idx + 1])

\* The operations on one network after its gradients were averaged.
ClipAndStepNeverClips(ops, model) == ops \o <<"step">>

ClipAndStep(ops, model) ==
    IF learn_cfg.gradient_clip /\ model \in {"actor", "critic"}
    THEN ops \o <<"clip", "step">>
    ELSE ops \o <<"step">>

Running == group.state = "running"

\* comm.Abort() at lines 1591 and 1640: the worker stops where it is.
OnDivergenceAfterActorStep(r) ==
    [r EXCEPT !.updated = {"actor"}, !.ops = NoOps, !.at = "aborted"]

OnDivergence(r) ==
    [r EXCEPT !.updated = {}, !.ops = NoOps, !.at = "aborted"]

SetWorker(w, r) == workers' = [workers EXCEPT ![w] = r]

\* Line 1434 and rollout() up to its first collective.  The assertion of
\* verify_truncated can fail in a rollout that takes at least one step; it
\* raises on this worker alone.
LearnWhile(w) ==
    \E r \in {workers[w]} :
        /\ Running
        /\ r.at = "while"
        /\ IF r.timesteps < r.ts_max
           THEN \E assert_fails \in
                    (IF LoopContinues(0) THEN BOOLEAN ELSE {FALSE}) :
                    SetWorker(w,
                        IF assert_fails
                        THEN [r EXCEPT !.at = "crashed"]
                        ELSE [r EXCEPT !.ts_before = r.timesteps,
                                       !.local_ts  = RolloutTs(0),
                                       !.at        = "rollout_reduce"])
           ELSE SetWorker(w, [r EXCEPT !.at = "returned"])
        /\ UNCHANGED <<learn_cfg, group>>

\* _ppo_batch_train, one pass of "for batch_data in data_loader" up to
\* mpi_avg_gradients(actor): lines 1554-1693.
TrainBatch(w) ==
    \E r \in {workers[w]} :
    \E len \in {DataLen(r, CurPolicy(r))} :
        /\ Running
        /\ r.at = "batch"
        /\ IF r.batch > NumBatches(len)
           THEN /\ SetWorker(w, [r EXCEPT !.at = "ppo_reduce"])
                /\ UNCHANGED group
           ELSE IF BatchLen(len, r.batch) = 1
           THEN \* obs.shape[0] == 1: continue
                /\ SetWorker(w, [r EXCEPT !.batch = @ + 1])
                /\ UNCHANGED group
           ELSE \E outcome \in
                    {"ok", "nan_ratios"} \cup
                    (IF learn_cfg.normalize_adv THEN {"nan_adv_std"} ELSE {}),
                   current_kl \in KLValues :
                    IF outcome = "ok"
                    THEN /\ SetWorker(w,
                              [r EXCEPT !.total_kl = @ + current_kl,
                                        !.epoch_kl = @ + current_kl,
                                        !.epoch_n  = @ + 1,
                                        !.updated  = {},
                                        !.ops = [NoOps EXCEPT !.actor =
                                                  <<"zero_grad", "backward">>],
                                        !.at = "actor_avg"])
                         /\ UNCHANGED group
                    ELSE \* comm.Abort()
                         /\ SetWorker(w, OnDivergence(r))
                         /\ group' = [state |-> "aborted", by |-> w]
        /\ UNCHANGED learn_cfg

\* Lines 1696-1705: clip, actor_optim.step(), then the critic's backward.
ActorStep(w) ==
    \E r \in {workers[w]} :
        /\ Running
        /\ r.at = "actor_step"
        /\ SetWorker(w,
              [r EXCEPT !.ops.actor  = ClipAndStep(@, "actor"),
                        !.ops.critic = <<"zero_grad", "backward">>,
                        !.updated    = @ \cup {"actor"},
                        !.at         = "critic_avg"])
        /\ UNCHANGED <<learn_cfg, group>>

\* Lines 1708-1735: clip, critic_optim.step().
CriticStep(w) ==
    \E r \in {workers[w]} :
        /\ Running
        /\ r.at = "critic_step"
        /\ SetWorker(w,
              [r EXCEPT !.ops.critic = ClipAndStep(@, "critic"),
                        !.updated    = @ \cup {"critic"},
                        !.at         = "batch_barrier"])
        /\ UNCHANGED <<learn_cfg, group>>

\* The epoch loop without its ICM update.
KlCheckWithoutIcm(w) ==
    \E r \in {workers[w]} :
        /\ Running
        /\ r.at = "kl_check"
        /\ SetWorker(w,
              IF KlExceeds(r.kl_avg[CurPolicy(r)], learn_cfg.target_kl)
              THEN EarlyStop(r)
              ELSE EpochEnd(r))
        /\ UNCHANGED <<learn_cfg, group>>

\* Lines 1488-1501: the KL early stop, then the ICM update of the epoch.
KlCheck(w) ==
    \E r \in {workers[w]} :
        /\ Running
        /\ r.at = "kl_check"
        /\ SetWorker(w,
              IF KlExceeds(r.kl_avg[CurPolicy(r)], learn_cfg.target_kl)
              THEN EarlyStop(r)
              ELSE IF learn_cfg.enable_icm[CurPolicy(r)]
              THEN [r EXCEPT !.batch = 1, !.counter = 0, !.at = "icm_batch"]
              ELSE EpochEnd(r))
        /\ UNCHANGED <<learn_cfg, group>>

\* _icm_batch_train, one pass of the loop up to mpi_avg_gradients:
\* lines 1767-1786.
IcmBatch(w) ==
    \E r \in {workers[w]} :
        /\ Running
        /\ r.at = "icm_batch"
        /\ SetWorker(w,
              IF r.batch > NumBatches(DataLen(r, CurPolicy(r)))
              THEN [r EXCEPT !.at = "icm_reduce"]
              ELSE [r EXCEPT !.ops = [NoOps EXCEPT !.icm =
                                         <<"zero_grad", "backward">>],
                             !.updated = {},
                             !.at = "icm_avg"])
        /\ UNCHANGED <<learn_cfg, group>>

\* Line 1788: icm_optim.step().
IcmStep(w) ==
    \E r \in {workers[w]} :
        /\ Running
        /\ r.at = "icm_step"
        /\ SetWorker(w,
              [r EXCEPT !.ops.icm = ClipAndStep(@, "icm"),
                        !.updated = @ \cup {"icm"},
                        !.at      = "icm_barrier"])
        /\ UNCHANGED <<learn_cfg, group>>

\* Lines 1524-1532: the learning rates after the schedule update.
LrSumIsZero(r) == learn_cfg.lr_end > 0 /\ r.iteration >= learn_cfg.lr_end

LrCheck(w) ==
    \E r \in {workers[w]} :
        /\ Running
        /\ r.at = "lr_check"
        /\ SetWorker(w, [r EXCEPT !.at = IF LrSumIsZero(r) THEN "returned"
                                         ELSE "while"])
        /\ UNCHANGED <<learn_cfg, group>>

\* The values the allreduce calls return.
Reduced ==
    [timesteps |-> SumOver([w \in Ranks |-> workers[w].local_ts], Ranks),
     counter   |-> SumOver([w \in Ranks |-> workers[w].counter], Ranks),
     total_kl  |-> SumOver([w \in Ranks |-> workers[w].total_kl], Ranks),
     epoch_kl  |-> SumOver([w \in Ranks |-> workers[w].epoch_kl], Ranks),
     epoch_n   |-> SumOver([w \in Ranks |-> workers[w].epoch_n], Ranks)]

\* "kl avg" from the worker's own totals, without the reductions.
KlAvgLocal(r, sums) == Rat(r.total_kl, r.counter)

\* Lines 1740-1754: status["kl avg"] = total_kl / counter, both reduced.
KlAvg(r, sums) == Rat(sums.total_kl, sums.counter)

\* What a worker does with the result of the collective it is in, up to
\* its next branch.
Complete(r, sums) ==
    CASE r.at = "rollout_reduce" ->
            [r EXCEPT !.timesteps = @ + sums.timesteps, !.at = "save"]
      [] r.at = "save" ->
            BeginBatchTrain(
                [r EXCEPT !.policy = 1, !.epoch_idx = 0,
                          !.iter_kl    = [p \in Policies |-> <<0, 0>>],
                          !.ppo_epochs = ZeroStats,
                          !.icm_epochs = ZeroStats,
                          !.stopped    = ZeroStats])
      [] r.at = "actor_avg" ->
            [r EXCEPT !.ops.actor = Append(@, "avg"), !.at = "actor_step"]
      [] r.at = "critic_avg" ->
            [r EXCEPT !.ops.critic = Append(@, "avg"), !.at = "critic_step"]
      [] r.at = "batch_barrier" ->
            [r EXCEPT !.counter = @ + 1, !.batch = @ + 1,
                      !.updated = {}, !.at = "batch"]
      [] r.at = "ppo_reduce" ->
            IF sums.counter = 0
            THEN \* ZeroDivisionError at line 1747
                 [r EXCEPT !.at = "crashed"]
            ELSE [r EXCEPT
                    !.kl_avg[CurPolicy(r)] = KlAvg(r, sums),
                    !.epoch_avg[CurPolicy(r)] =
                        IF sums.epoch_n = 0 THEN RatOfInt(0)
                        ELSE Rat(sums.epoch_kl, sums.epoch_n),
                    !.iter_kl[CurPolicy(r)] =
                        <<@[1] + sums.epoch_kl, @[2] + sums.epoch_n>>,
                    !.ppo_epochs[CurPolicy(r)] = @ + 1,
                    !.at = "epoch_barrier"]
      [] r.at = "epoch_barrier" ->
            [r EXCEPT !.at = "kl_check"]
      [] r.at = "icm_avg" ->
            [r EXCEPT !.ops.icm = Append(@, "avg"), !.at = "icm_step"]
      [] r.at = "icm_barrier" ->
            [r EXCEPT !.counter = @ + 1, !.batch = @ + 1,
                      !.updated = {}, !.at = "icm_batch"]
      [] r.at = "icm_reduce" ->
            IF sums.counter = 0
            THEN \* ZeroDivisionError at line 1795
                 [r EXCEPT !.at = "crashed"]
            ELSE EpochEnd([r EXCEPT !.icm_epochs[CurPolicy(r)] = @ + 1])
      [] r.at = "lr_barrier" ->
            [r EXCEPT !.at = "lr_check"]

\* A collective completes once every worker has entered it.
Collective ==
    /\ Running
    /\ \E site \in CollectiveSites : \A w \in Ranks : workers[w].at = site
    /\ workers' = [w \in Ranks |-> Complete(workers[w], Reduced)]
    /\ UNCHANGED <<learn_cfg, group>>

InitLearn ==
    /\ learn_cfg \in
          [epochs_per_iter : 1..MaxEpochs,
           batch_size      : BatchSizes,
           normalize_adv   : BOOLEAN,
           gradient_clip   : BOOLEAN,
           target_kl       : TargetKls,
           enable_icm      : [Policies -> BOOLEAN],
           num_timesteps   : Budgets,
           lr_end          : LrEnds]
    /\ workers = [w \in Ranks |-> NewWorker]
    /\ group   = [state |-> "running", by |-> 0]

(***************************************************************************)
(* PPO.get_policy_batches, get_policy_actions and get_policy_values.       *)
(*                                                                         *)
(* An observation dictionary is its key order (the order of iteration)     *)
(* and one row per agent, holding one observation per environment index.   *)
(* The observations are numbers, different for every agent and index; the  *)
(* actor and the critic of a policy are functions of one observation that  *)
(* tell the policy and the observation apart.                              *)
(***************************************************************************)
GatherAgents == <<"a1", "a2", "a3">>

GatherEnvs == {1, 2}

GatherPolicySets == {{"p1"}, {"p1", "p2"}}

AgentNum(a) == CHOOSE k \in 1..Len(GatherAgents) : GatherAgents[k] = a

PolicyNum(p) == CHOOSE k \in 1..Len(PolicyOrder) : PolicyOrder[k] = p

ObsValue(a, e) == 10 * AgentNum(a) + e

Actor(p, x) == 100 * PolicyNum(p) + x

Critic(p, x) == 1000 * PolicyNum(p) + x

KeysOf(obs) == {obs.order[k] : k \in 1..Len(obs.order)}

\* The first loop of get_policy_batches: policy_agents[policy_id].
PolicyAgents(obs, mapping, p) ==
    SelectSeq(obs.order, LAMBDA a : mapping[a] = p)

\* The last loop of get_policy_batches: the observation of every agent is
\* written to row policy_idxs[policy_id] of its policy's batch.
RECURSIVE FillBatches(_, _, _, _, _)
FillBatches(order, rows, mapping, policy_idxs, policy_batches) ==
    IF order = <<>> THEN policy_batches
    ELSE LET a_id      == Head(order)
             policy_id == mapping[a_id]
             b_idx     == policy_idxs[policy_id]
         IN  FillBatches(Tail(order), rows, mapping,
                 [policy_idxs EXCEPT ![policy_id] = @ + 1],
                 [policy_batches EXCEPT ![policy_id][b_idx + 1] = rows[a_id]])

NoBatches == [ok |-> FALSE, policy_agents |-> <<>>, policy_batches |-> <<>>]

\* get_policy_batches: a policy none of whose agents is in the dictionary
\* has no entry in policy_agents, and line 450 raises KeyError.
GetPolicyBatches(obs, mapping, policies, envs) ==
    LET agent_counts ==
            [p \in policies |-> Len(PolicyAgents(obs, mapping, p))]
        zeros ==
            [p \in policies |->
                [b \in 1..agent_counts[p] |-> [e \in 1..envs |-> 0]]]
    IN  IF \E p \in policies : agent_counts[p] = 0
        THEN NoBatches
        ELSE [ok             |-> TRUE,
              policy_agents  |->
                  [p \in policies |-> PolicyAgents(obs, mapping, p)],
              policy_batches |->
                  FillBatches(obs.order, obs.rows, mapping,
                              [p \in policies |-> 0], zeros)]

\* batch.reshape((-1,) + shape): rows of agents times environments, in
\* row-major order.
ReshapeColumnMajor(batch, envs) ==
    [j \in 1..(Len(batch) * envs) |->
        batch[((j - 1) % Len(batch)) + 1][((j - 1) \div Len(batch)) + 1]]

Reshape(batch, envs) ==
    [j \in 1..(Len(batch) * envs) |->
        batch[((j - 1) \div envs) + 1][((j - 1) % envs) + 1]]

\* result.reshape((num_agents, envs_per_proc) + shape)
ReshapeBack(flat, num_agents, envs) ==
    [b \in 1..num_agents |-> [e \in 1..envs |-> flat[(b - 1) * envs + e]]]

\* for p_idx, a_id in enumerate(policy_agents[policy_id]):
\*     result[a_id] = batch_result[p_idx]
Scatter(policy_agents, batch_results) ==
    LET policies == DOMAIN policy_agents
        keys == UNION {{policy_agents[p][k] :
                           k \in 1..Len(policy_agents[p])} : p \in policies}
        last(a) ==
            CHOOSE pk \in policies \X (1..Len(GatherAgents)) :
                /\ pk[2] <= Len(policy_agents[pk[1]])
                /\ policy_agents[pk[1]][pk[2]] = a
    IN  [a \in keys |-> batch_results[last(a)[1]][last(a)[2]]]

\* One network applied to the batch of every policy.
Network(kind, p, x) == IF kind = "actor" THEN Actor(p, x) ELSE Critic(p, x)

BatchResults(batches, kind, envs) ==
    [p \in DOMAIN batches.policy_batches |->
        LET batch_obs == Reshape(batches.policy_batches[p], envs)
            result    == [j \in DOMAIN batch_obs |->
                             Network(kind, p, batch_obs[j])]
        IN  ReshapeBack(result, Len(batches.policy_batches[p]), envs)]

GetPolicyActions(obs, mapping, policies, envs) ==
    LET batches == GetPolicyBatches(obs, mapping, policies, envs)
    IN  IF ~batches.ok THEN <<>>
        ELSE Scatter(batches.policy_agents,
                     BatchResults(batches, "actor", envs))

GetPolicyValues(obs, mapping, policies, envs) ==
    LET batches == GetPolicyBatches(obs, mapping, policies, envs)
    IN  IF ~batches.ok THEN <<>>
        ELSE Scatter(batches.policy_agents,
                     BatchResults(batches, "critic", envs))

\* The dictionaries env.step and env.reset hand to the three methods.
KeyOrders ==
    {order \in UNION {[1..n -> {GatherAgents[k] : k \in 1..Len(GatherAgents)}] :
                         n \in 1..Len(GatherAgents)} :
        \A j, k \in DOMAIN order : j # k => order[j] # order[k]}

ObsDict(order, envs) ==
    [order |-> order,
     rows  |-> [a \in {order[k] : k \in 1..Len(order)} |->
                   [e \in 1..envs |-> ObsValue(a, e)]]]

GatherInputs ==
    {[obs      |-> ObsDict(order, envs),
      envs     |-> envs,
      policies |-> policies,
      mapping  |-> mapping] :
        order \in KeyOrders, envs \in GatherEnvs,
        policies \in GatherPolicySets,
        mapping \in [{"a1", "a2", "a3"} -> {"p1", "p2"}]}

NoGatherIn ==
    [obs |-> ObsDict(<<"a1">>, 1), envs |-> 1, policies |-> {"p1"},
     mapping |-> [a \in {"a1", "a2", "a3"} |-> "p1"]]

NoGatherOut ==
    [called |-> FALSE, batches |-> NoBatches, actions |-> <<>>,
     values |-> <<>>]

InitGather ==
    /\ gather_in \in {g \in GatherInputs :
                         \A a \in KeysOf(g.obs) : g.mapping[a] \in g.policies}
    /\ gather_out = NoGatherOut

\* One rollout step's calls of the three methods on one dictionary.
GatherScatter ==
    /\ ~gather_out.called
    /\ gather_out' =
          [called  |-> TRUE,
           batches |-> GetPolicyBatches(gather_in.obs, gather_in.mapping,
                           gather_in.policies, gather_in.envs),
           actions |-> GetPolicyActions(gather_in.obs, gather_in.mapping,
                           gather_in.policies, gather_in.envs),
           values  |-> GetPolicyValues(gather_in.obs, gather_in.mapping,
                           gather_in.policies, gather_in.envs)]
    /\ UNCHANGED gather_in

\* The next step's dictionary.
GatherNext ==
    /\ gather_out.called
    /\ gather_in' \in {g \in GatherInputs :
                          /\ g.envs = gather_in.envs
                          /\ g.policies = gather_in.policies
                          /\ g.mapping = gather_in.mapping
                          /\ \A a \in KeysOf(g.obs) : g.mapping[a] \in g.policies}
    /\ gather_out' = NoGatherOut

IdleGather ==
    /\ gather_in  = NoGatherIn
    /\ gather_out = NoGatherOut

(***************************************************************************)
(* The life of the trainer object: PPO.__init__ with its checks of         *)
(* save_when and soft_resets and its load of a saved state, rollout's      *)
(* check of the environment, save, and pickling (__getstate__ and          *)
(* __setstate__).  Ranks are counted from 0 as in the file names           *)
(* state_<rank>.pickle.  A status file on disk is described by the size    *)
(* of the worker group that wrote it.  A run is one worker group; the      *)
(* files outlive it.  on_disk and saved_procs record what load found.      *)
(***************************************************************************)
WorldSizes == {1, 2, 3}

MaxRolloutCalls == 2

SaveWhenTypes == {"None", "ChangeInStateScheduler", "other"}

\* bool, int and str are not callable; LinearStepScheduler and "callable"
\* (any other callable object) are.
SoftResetsTypes == {"bool", "LinearStepScheduler", "callable", "int", "str"}

Callable(type) == type \in {"LinearStepScheduler", "callable"}

FileRanks == 0..2

Runs ==
    [procs       : WorldSizes,
     test_mode   : BOOLEAN,
     load_state  : BOOLEAN,
     save_when   : SaveWhenTypes,
     soft_resets : SoftResetsTypes]

NoFile == [exists |-> FALSE, procs |-> 0]

NoFiles == [dir |-> FALSE, state |-> [r \in FileRanks |-> NoFile]]

NewTrainer ==
    [phase          |-> "args",
     abort_at       |-> "none",
     has_env        |-> FALSE,
     restored       |-> FALSE,
     reattached     |-> FALSE,
     save_when      |-> "unset",
     soft_resets    |-> "unset",
     loaded         |-> <<>>,
     on_disk        |-> {},
     saved_procs    |-> 0,
     rollout_calls  |-> 0,
     dataset_inits  |-> 0,
     env_resets     |-> 0,
     status_updates |-> 0]

TrainerRanks == 0..(run.procs - 1)

\* Lines 213-221: self.save_when after the check, "abort" for comm.Abort().
CheckSaveWhen(type) ==
    IF type = "None" THEN "ChangeInStateScheduler(iteration)"
    ELSE IF type # "ChangeInStateScheduler" THEN "abort"
    ELSE type

\* Lines 223-235: self.soft_resets after the check.
CheckSoftResets(type) ==
    IF Callable(type)
    THEN IF type # "LinearStepScheduler" THEN "abort" ELSE type
    ELSE "CallableValue"

\* PPO.load, lines 1844-1863: the file a worker reads its status from.
StateFileAlwaysRankZero(r, state, test_mode) == 0

StateFile(r, state, test_mode) ==
    IF test_mode THEN 0
    ELSE IF ~state[r].exists THEN 0
    ELSE r

\* PPO.__init__ on every worker of the group.
Construct ==
    /\ trainer.phase = "args"
    /\ \E sw \in {CheckSaveWhen(run.save_when)},
          sr \in {CheckSoftResets(run.soft_resets)} :
          IF sw = "abort" \/ sr = "abort"
          THEN /\ trainer' = [trainer EXCEPT !.phase = "aborted",
                                             !.abort_at = "construction"]
               /\ UNCHANGED files
          ELSE /\ files' = [files EXCEPT !.dir = TRUE]
               /\ IF run.load_state /\ files.dir
                  THEN IF \E r \in TrainerRanks :
                            ~files.state[StateFile(r, files.state,
                                                   run.test_mode)].exists
                       THEN \* open() raises FileNotFoundError
                            trainer' = [trainer EXCEPT !.phase = "failed"]
                       ELSE trainer' =
                              [trainer EXCEPT
                                 !.phase = "ready", !.has_env = TRUE,
                                 !.save_when = sw, !.soft_resets = sr,
                                 !.on_disk = {r \in FileRanks :
                                                 files.state[r].exists},
                                 !.saved_procs = files.state[0].procs,
                                 !.loaded =
                                    [r \in TrainerRanks |->
                                        StateFile(r, files.state,
                                                  run.test_mode)]]
                  ELSE trainer' = [trainer EXCEPT
                                     !.phase = "ready", !.has_env = TRUE,
                                     !.save_when = sw, !.soft_resets = sr]
    /\ UNCHANGED run

\* rollout(), lines 917-925 and what follows them.
RolloutOnInitialisesFirst(t) ==
    IF ~t.has_env
    THEN [t EXCEPT !.phase = "aborted", !.abort_at = "rollout",
                   !.rollout_calls = @ + 1, !.dataset_inits = @ + 1]
    ELSE [t EXCEPT !.rollout_calls = @ + 1, !.dataset_inits = @ + 1,
                   !.env_resets = @ + 1, !.status_updates = @ + 1]

RolloutOn(t) ==
    IF ~t.has_env
    THEN [t EXCEPT !.phase = "aborted", !.abort_at = "rollout",
                   !.rollout_calls = @ + 1]
    ELSE [t EXCEPT !.rollout_calls = @ + 1, !.dataset_inits = @ + 1,
                   !.env_resets = @ + 1, !.status_updates = @ + 1]

TrainerRollout ==
    /\ trainer.phase = "ready"
    /\ trainer.rollout_calls < MaxRolloutCalls
    /\ trainer' = RolloutOn(trainer)
    /\ UNCHANGED <<run, files>>

\* pickle.loads(pickle.dumps(ppo)): __getstate__ drops env, __setstate__
\* sets it to None.
Restore ==
    /\ trainer.phase = "ready"
    /\ trainer' = [trainer EXCEPT !.has_env = FALSE, !.restored = TRUE,
                                  !.reattached = FALSE]
    /\ UNCHANGED <<run, files>>

\* ppo.env = env on a restored object.
Reattach ==
    /\ trainer.phase = "ready"
    /\ ~trainer.has_env
    /\ trainer' = [trainer EXCEPT !.has_env = TRUE, !.reattached = TRUE]
    /\ UNCHANGED <<run, files>>

\* save(), lines 1797-1827: every worker writes state_<rank>.pickle.
Save ==
    /\ trainer.phase = "ready"
    /\ IF run.test_mode
       THEN UNCHANGED files
       ELSE files' = [files EXCEPT !.state =
                        [r \in FileRanks |->
                            IF r \in TrainerRanks
                            THEN [exists |-> TRUE, procs |-> run.procs]
                            ELSE @[r]]]
    /\ UNCHANGED <<run, trainer>>

\* The run ends; another worker group is started on the same state_path.
Restart ==
    /\ trainer.phase # "args"
    /\ run' \in Runs
    /\ trainer' = NewTrainer
    /\ UNCHANGED files

InitTrainer ==
    /\ run \in Runs
    /\ trainer = NewTrainer
    /\ files = NoFiles

IdleTrainer ==
    /\ run = [procs |-> 1, test_mode |-> FALSE, load_state |-> FALSE,
              save_when |-> "None", soft_resets |-> "bool"]
    /\ trainer = NewTrainer
    /\ files = NoFiles

(***************************************************************************)
(* The specifications.  Each one moves its own variables and holds the     *)
(* others at their idle values.                                            *)
(***************************************************************************)
IdleRolloutAt(procs, ts, mapping) ==
    /\ num_procs         = procs
    /\ orig_ts           = ts
    /\ ts_per_rollout    = TsPerRank(ts, procs)
    /\ envs_per_proc     = 1
    /\ max_ts_per_ep     = 1
    /\ policy_mapping_fn = mapping
    /\ agent_ids         = AgentOrder
    /\ pc                = "idle"
    /\ rank              = 1
    /\ total_rollout_ts  = 0
    /\ total_episodes    = RatOfInt(0)
    /\ ep_ts             = <<0>>
    /\ episode_lengths   = <<0>>
    /\ masked            = <<{}>>
    /\ quiet             = TRUE
    /\ reported          = [terminated |-> NoFlags, truncated |-> NoFlags]
    /\ terminated        = NoFlags
    /\ flushes           = {}
    /\ records           = [p \in Policies |-> 0]
    /\ active_ts         = [p \in Policies |-> 0]
    /\ reduced           = [timesteps |-> 0, episodes |-> RatOfInt(0)]
    /\ status            = [timesteps |-> 0, total_episodes |-> RatOfInt(0)]

IdleRolloutWith(mapping) == IdleRolloutAt(1, 1, mapping)

IdleRollout == IdleRolloutWith([a \in AllAgents |-> "p1"])

IdleWrapper ==
    /\ need_agent_ids  = TRUE
    /\ death_mask      = TRUE
    /\ need_hard_reset = TRUE
    /\ obs_cache       = <<>>
    /\ last_call       = NoCall
    /\ prev_call       = NoCall
    /\ step_out        = NoStep

IdleSpace ==
    /\ multi_agent_space = <<>>
    /\ add_ids           = FALSE
    /\ refined_space     = NoSpace
    /\ refined_obs       = NoObs

\* The policies' enable_icm as the rollout reads it.
IcmChoices ==
    {[p \in Policies |-> FALSE], [p \in Policies |-> p = "p1"]}

IdleRewardWith(icm) ==
    /\ ext_reward_weight = 1
    /\ enable_icm        = icm
    /\ reward_in         = NoRewardIn
    /\ reward_out        = NoRewardOut

IdleReward == IdleRewardWith([p \in Policies |-> FALSE])

IdleLearn ==
    /\ learn_cfg = NoLearnCfg
    /\ workers   = <<>>
    /\ group     = [state |-> "running", by |-> 0]

\* The parts that only the later specifications move.
(***************************************************************************)
(* The datasets of the policies through learn().                           *)
(*                                                                         *)
(* learn() calls rollout() and trains on what it collected, iteration      *)
(* after iteration.  A dataset is the name of the last lifecycle call made *)
(* on it, the number of add_episode_info calls it received since it was    *)
(* initialised, and the log of all calls made on it.  kl_stop is the       *)
(* outcome of the "kl avg" > target_kl test after a PPO epoch.             *)
(***************************************************************************)
MaxIterations == 2

RolloutLengths == {0, 1, 2}

ActingPolicies == {{"p1"}, {"p1", "p2"}}

DataConfigs ==
    [epochs_per_iter : 1..MaxEpochs,
     enable_icm      : IcmChoices,
     rollout_len     : RolloutLengths,
     acting          : ActingPolicies,
     iterations      : 1..MaxIterations]

NewLearner(cfg) ==
    [cfg |-> cfg, at |-> "while", iteration |-> 0, step |-> 0,
     policy |-> 1, epoch_idx |-> 0]

NoDataset == [state |-> "none", records |-> 0, log |-> <<>>]

Called(d, method) == [d EXCEPT !.log = Append(@, method)]

InitializeDataset(d) ==
    [Called(d, "initialize_dataset") EXCEPT
        !.state = "initialized", !.records = 0]

AddEpisodeInfoTo(d) ==
    [Called(d, "add_episode_info") EXCEPT !.records = @ + 1]

FinalizeDatasetSkipped(d) == d

FinalizeDataset(d) ==
    [Called(d, "finalize_dataset") EXCEPT !.state = "finalized"]

ReadBy(d, method) == Called(d, method)

ClearDataset(d) ==
    [Called(d, "clear_dataset") EXCEPT !.state = "cleared", !.records = 0]

\* while timesteps < ts_max: rollout() up to its loop.
DataLearnWhile ==
    /\ learner.at = "while"
    /\ learner.iteration < learner.cfg.iterations
    /\ learner' = [learner EXCEPT !.at = "rollout", !.step = 0]
    /\ datasets' = [p \in Policies |-> InitializeDataset(datasets[p])]

\* timesteps >= ts_max: learn() returns.
DataLearnReturn ==
    /\ learner.at = "while"
    /\ learner.iteration = learner.cfg.iterations
    /\ learner' = [learner EXCEPT !.at = "returned"]
    /\ UNCHANGED datasets

\* One iteration of the loop of rollout(): add_episode_info for the agents
\* of the acting policies.
DataRolloutStep ==
    /\ learner.at = "rollout"
    /\ learner.step < learner.cfg.rollout_len
    /\ learner' = [learner EXCEPT !.step = @ + 1]
    /\ datasets' = [p \in Policies |->
                       IF p \in learner.cfg.acting
                       THEN AddEpisodeInfoTo(datasets[p])
                       ELSE datasets[p]]

\* The loop of rollout() is left: the statistics, finalize_dataset.
DataRolloutEnd ==
    /\ learner.at = "rollout"
    /\ learner.step = learner.cfg.rollout_len
    /\ learner' = [learner EXCEPT !.at = "loaders"]
    /\ datasets' = [p \in Policies |-> FinalizeDataset(datasets[p])]

\* learn() after rollout(): one DataLoader per policy.
DataLoaders ==
    /\ learner.at = "loaders"
    /\ learner' = [learner EXCEPT !.at = "epoch", !.policy = 1,
                                  !.epoch_idx = 0]
    /\ UNCHANGED datasets

\* The position after an epoch of the policy at position k.
AfterEpoch(l, kl_stop) ==
    IF ~kl_stop /\ l.epoch_idx + 1 < l.cfg.epochs_per_iter
    THEN [l EXCEPT !.epoch_idx = @ + 1]
    ELSE IF l.policy < Len(PolicyOrder)
         THEN [l EXCEPT !.policy = @ + 1, !.epoch_idx = 0]
         ELSE [l EXCEPT !.at = "clear"]

\* One epoch of one policy: recalculate_advantages from the second epoch
\* on, _ppo_batch_train, the KL test, _icm_batch_train.
DataEpoch ==
    /\ learner.at = "epoch"
    /\ \E kl_stop \in BOOLEAN :
       \E p \in {PolicyOrder[learner.policy]} :
       \E d1 \in {IF learner.epoch_idx > 0
                  THEN ReadBy(datasets[p], "recalculate_advantages")
                  ELSE datasets[p]} :
       \E d2 \in {ReadBy(d1, "_ppo_batch_train")} :
       \E d3 \in {IF ~kl_stop /\ learner.cfg.enable_icm[p]
                  THEN ReadBy(d2, "_icm_batch_train")
                  ELSE d2} :
          /\ datasets' = [datasets EXCEPT ![p] = d3]
          /\ learner' = AfterEpoch(learner, kl_stop)

\* After the epochs of the last policy: clear_dataset, iteration += 1.
DataClear ==
    /\ learner.at = "clear"
    /\ datasets' = [p \in Policies |-> ClearDataset(datasets[p])]
    /\ learner' = [learner EXCEPT !.at = "while", !.iteration = @ + 1]

InitData ==
    /\ \E cfg \in DataConfigs : learner = NewLearner(cfg)
    /\ datasets = [p \in Policies |-> NoDataset]

IdleData ==
    /\ learner = [cfg |-> [epochs_per_iter |-> 1,
                           enable_icm |-> [p \in Policies |-> FALSE],
                           rollout_len |-> 0, acting |-> {"p1"},
                           iterations |-> 1],
                  at |-> "idle", iteration |-> 0, step |-> 0,
                  policy |-> 1, epoch_idx |-> 0]
    /\ datasets = [p \in Policies |-> NoDataset]

(***************************************************************************)
(* The run statistics of rollout() and their reduction.                    *)
(*                                                                         *)
(* Every worker keeps total_episodes, total_rollout_ts, longest_run,       *)
(* shortest_run, avg_run and the reward range of its rollout; after the    *)
(* loop they are combined with comm.allreduce and written to               *)
(* status_dict["general"] (the reward range to the policy's status).       *)
(* ended is the list of the lengths of the episodes the worker completed.  *)
(***************************************************************************)
StatsProcs == {1, 2}

StatsTs == {1, 2, 3}

StatsEnvs == {1, 2}

StatsRewards == {1, 2}

RatLeq(x, y) == x[1] * y[2] <= y[1] * x[2]

RatMin(x, y) == IF RatLeq(x, y) THEN x ELSE y

RatMax(x, y) == IF RatLeq(x, y) THEN y ELSE x

SetMin(S) == CHOOSE x \in S : \A y \in S : x <= y

\* The locals of rollout() before its loop.
NewStats(ts, envs) ==
    [total_episodes   |-> RatOfInt(0),
     total_rollout_ts |-> 0,
     longest_run      |-> 0,
     shortest_run     |-> Rat(ts, envs),
     avg_run          |-> Rat(ts, envs),
     max_reward       |-> 0,
     min_reward       |-> 3,
     episode_lengths  |-> [i \in 1..envs |-> 0],
     ended            |-> <<>>]

NoGeneral ==
    [total_episodes |-> RatOfInt(0), longest_run |-> 0,
     shortest_run |-> RatOfInt(0), average_run |-> RatOfInt(0),
     timesteps |-> 0, reward_range |-> <<0, 0>>, written |-> FALSE]

StatsRanks == 1..stats.procs

StatsIndices == 1..stats.envs

RECURSIVE AppendAll(_, _, _)
AppendAll(seq, lengths, S) ==
    IF S = {} THEN seq
    ELSE LET i == SetMin(S)
         IN  AppendAll(Append(seq, lengths[i]), lengths, S \ {i})

\* One iteration of the loop: the statistics of the terminated indices,
\* the episode count at the cap, the longest run.
StatsLoopBody(l, reward, where_term) ==
    LET lengths_1 == [i \in StatsIndices |-> l.episode_lengths[i] + 1]
        ts        == l.total_rollout_ts + stats.envs
        ended_now == {lengths_1[i] : i \in where_term}
        lengths_2 == [i \in StatsIndices |->
                         IF i \in where_term THEN 0 ELSE lengths_1[i]]
        episodes_2 == RatAdd(l.total_episodes,
                             RatOfInt(Cardinality(where_term)))
        longest_1 == IF where_term = {} THEN l.longest_run
                     ELSE Max(l.longest_run, SetMax(ended_now))
    IN  [total_rollout_ts |-> ts,
         max_reward       |-> Max(l.max_reward, reward),
         min_reward       |-> IF reward < l.min_reward THEN reward
                              ELSE l.min_reward,
         shortest_run     |-> IF where_term = {} THEN l.shortest_run
                              ELSE RatMin(l.shortest_run,
                                          RatOfInt(SetMin(ended_now))),
         avg_run          |-> IF where_term = {} THEN l.avg_run
                              ELSE Rat(SumOver(lengths_1, where_term),
                                       Cardinality(where_term)),
         episode_lengths  |-> lengths_2,
         total_episodes   |-> IF ts >= stats.ts
                              THEN EpisodesAtCapOf(stats.ts, stats.envs,
                                                   episodes_2, lengths_2)
                              ELSE episodes_2,
         longest_run      |-> Max(longest_1,
                                  SetMax({lengths_2[i] : i \in StatsIndices})),
         ended            |-> AppendAll(l.ended, lengths_1, where_term)]

StatsStep(w) ==
    /\ stats.phase = "loop"
    /\ stats.local[w].total_rollout_ts < stats.ts
    /\ \E reward \in StatsRewards, where_term \in SUBSET StatsIndices :
          stats' = [stats EXCEPT
                       !.local[w] = StatsLoopBody(@, reward, where_term)]
    /\ UNCHANGED general

\* comm.allreduce over the workers' values.
AllreduceSum(f) == SumOver(f, StatsRanks)

AllreduceRatSum(f) == RatSum(f, StatsRanks)

AllreduceMax(f) == SetMax({f[w] : w \in StatsRanks})

AllreduceMin(f) == SetMin({f[w] : w \in StatsRanks})

AllreduceRatMin(f) ==
    CHOOSE x \in {f[w] : w \in StatsRanks} :
        \A w \in StatsRanks : RatLeq(x, f[w])

Local(field) == [w \in StatsRanks |-> stats.local[w][field]]

AverageRunWeighted ==
    LET weighted == [w \in StatsRanks |->
                        Rat(stats.local[w].avg_run[1]
                                * stats.local[w].total_episodes[1],
                            stats.local[w].avg_run[2]
                                * stats.local[w].total_episodes[2])]
    IN  RatDiv(AllreduceRatSum(weighted),
               AllreduceRatSum(Local("total_episodes")))

AverageRun ==
    RatDiv(AllreduceRatSum(Local("avg_run")), RatOfInt(stats.procs))

\* After the loop of every worker: the allreduce calls and the writes to
\* the status.
StatsReduce ==
    /\ stats.phase = "loop"
    /\ \A w \in StatsRanks : stats.local[w].total_rollout_ts >= stats.ts
    /\ stats' = [stats EXCEPT !.phase = "reduced"]
    /\ general' =
          [total_episodes |-> RatAdd(general.total_episodes,
                                 AllreduceRatSum(Local("total_episodes"))),
           longest_run    |-> AllreduceMax(Local("longest_run")),
           shortest_run   |-> AllreduceRatMin(Local("shortest_run")),
           average_run    |-> AverageRun,
           timesteps      |-> general.timesteps
                                 + AllreduceSum(Local("total_rollout_ts")),
           reward_range   |-> <<AllreduceMin(Local("min_reward")),
                                AllreduceMax(Local("max_reward"))>>,
           written        |-> TRUE]

InitStats ==
    /\ \E procs \in StatsProcs, ts \in StatsTs, envs \in StatsEnvs :
          stats = [procs |-> procs, ts |-> ts, envs |-> envs,
                   phase |-> "loop",
                   local |-> [w \in 1..procs |-> NewStats(ts, envs)]]
    /\ general = NoGeneral

IdleStats ==
    /\ stats = [procs |-> 1, ts |-> 1, envs |-> 1, phase |-> "idle",
                local |-> [w \in 1..1 |-> NewStats(1, 1)]]
    /\ general = NoGeneral

(***************************************************************************)
(* The episode scores of rollout(), for one policy and one environment     *)
(* index.                                                                  *)
(*                                                                         *)
(* In every step the rewards of the policy's agents are added to           *)
(* ep_rewards, ep_nat_rewards and ep_intr_rewards, and the three           *)
(* accumulators are then divided by the number of agents of the policy.    *)
(* A terminated episode, and at the rollout cap an open one, enters        *)
(* top_rollout_score with its ep_nat_rewards; the accumulators are reset   *)
(* at a termination.  step_avg holds the sum over the steps of the         *)
(* episode of the agents' average rewards, ended the values of step_avg    *)
(* of the episodes that terminated or were open at the cap.                *)
(***************************************************************************)
MaxScoreSteps == 3

ScoreAgentCounts == {1, 2}

ScoreRewards == {0 - 1, 1}

\* -np.finfo(np.float32).max
LowestScore == <<0 - 1000, 1>>

ZeroScores == [reward |-> RatOfInt(0), nat |-> RatOfInt(0),
               intr |-> RatOfInt(0)]

NewScore(agents, icm, len) ==
    [agents |-> agents, icm |-> icm, len |-> len, steps |-> 0,
     ep |-> ZeroScores, step_avg |-> ZeroScores,
     top_rollout_score |-> LowestScore, ended |-> {},
     top_score |-> LowestScore, written |-> FALSE]

\* apply_intrinsic_rewards: the intrinsic reward of an agent of the policy.
IntrinsicReward(icm) == IF icm THEN 1 ELSE 0

\* The rewards of one step summed over the agents of the policy.
StepSums(natural_reward, icm) ==
    LET n == Len(natural_reward)
        nat == SumOver(natural_reward, 1..n)
    IN  [reward |-> nat + n * IntrinsicReward(icm),
         nat    |-> nat,
         intr   |-> n * IntrinsicReward(icm)]

ScoreFields == {"reward", "nat", "intr"}

\* Averaging the step's rewards only, before they are added.
AccumulateStepAverage(ep, sums, n) ==
    [f \in ScoreFields |-> RatAdd(ep[f], Rat(sums[f], n))]

\* ep_rewards[policy_id] += reward[agent_id] for every agent, then
\* ep_rewards[policy_id] /= agents_per_policy[policy_id].
Accumulate(ep, sums, n) ==
    [f \in ScoreFields |->
        RatDiv(RatAdd(ep[f], RatOfInt(sums[f])), RatOfInt(n))]

ScoreStep ==
    /\ ~score.written
    /\ score.steps < score.len
    /\ \E natural_reward \in [1..score.agents -> ScoreRewards],
          is_terminated \in BOOLEAN :
       \E sums \in {StepSums(natural_reward, score.icm)} :
       \E ep_1 \in {Accumulate(score.ep, sums, score.agents)} :
       \E avg_1 \in {AccumulateStepAverage(score.step_avg, sums,
                                           score.agents)} :
       \E at_cap \in {score.steps + 1 >= score.len} :
          score' = [score EXCEPT
             !.steps = @ + 1,
             !.top_rollout_score =
                 IF is_terminated \/ at_cap THEN RatMax(@, ep_1.nat) ELSE @,
             !.ended =
                 IF is_terminated \/ at_cap THEN @ \cup {avg_1.nat} ELSE @,
             !.ep = IF is_terminated THEN ZeroScores ELSE ep_1,
             !.step_avg = IF is_terminated THEN ZeroScores ELSE avg_1]

\* After the loop: the top score written to the status.
ScoreWrite ==
    /\ ~score.written
    /\ score.steps >= score.len
    /\ score' = [score EXCEPT !.written = TRUE,
                              !.top_score = score.top_rollout_score]

InitScore ==
    \E agents \in ScoreAgentCounts, icm \in BOOLEAN,
       len \in 1..MaxScoreSteps :
        score = NewScore(agents, icm, len)

IdleScore == score = [NewScore(1, FALSE, 1) EXCEPT !.written = TRUE]

IdleRest == IdleGather /\ IdleTrainer /\ IdleData /\ IdleStats /\ IdleScore

Init ==
    /\ InitRollout /\ IdleWrapper /\ IdleSpace /\ IdleLearn
    /\ \E icm \in IcmChoices :
          /\ IdleRewardWith(icm)
          \* the configurations with ICM are run with one worker
          /\ num_procs > 1 => icm = [p \in Policies |-> FALSE]
    /\ IdleRest

Next ==
    \/ RolloutBegin /\ UNCHANGED <<wrapperVars, spaceVars, rewardVars, learnVars, gatherVars, trainerVars, dataVars, statsVars, scoreVars>>
    \/ RolloutStep  /\ UNCHANGED <<wrapperVars, spaceVars, rewardVars, learnVars, gatherVars, trainerVars, dataVars, statsVars, scoreVars>>
    \/ NextWorker   /\ UNCHANGED <<wrapperVars, spaceVars, rewardVars, learnVars, gatherVars, trainerVars, dataVars, statsVars, scoreVars>>
    \/ UpdateStatus /\ UNCHANGED <<wrapperVars, spaceVars, rewardVars, learnVars, gatherVars, trainerVars, dataVars, statsVars, scoreVars>>

Spec == Init /\ [][Next]_vars

InitW ==
    /\ IdleRollout /\ InitWrapper /\ IdleSpace /\ IdleReward /\ IdleLearn
    /\ IdleRest

NextW ==
    \/ WrapperReset     /\ UNCHANGED <<rolloutVars, spaceVars, rewardVars, learnVars, gatherVars, trainerVars, dataVars, statsVars, scoreVars>>
    \/ WrapperSoftReset /\ UNCHANGED <<rolloutVars, spaceVars, rewardVars, learnVars, gatherVars, trainerVars, dataVars, statsVars, scoreVars>>
    \/ WrapperStep      /\ UNCHANGED <<rolloutVars, spaceVars, rewardVars, learnVars, gatherVars, trainerVars, dataVars, statsVars, scoreVars>>
    \/ RolloutStart     /\ UNCHANGED <<rolloutVars, spaceVars, rewardVars, learnVars, gatherVars, trainerVars, dataVars, statsVars, scoreVars>>

SpecWrapper == InitW /\ [][NextW]_vars

InitS ==
    /\ IdleRollout /\ IdleWrapper /\ InitSpace /\ IdleReward /\ IdleLearn
    /\ IdleRest

NextS ==
    \/ ConstructSpace /\ UNCHANGED <<rolloutVars, wrapperVars, rewardVars, learnVars, gatherVars, trainerVars, dataVars, statsVars, scoreVars>>
    \/ RefineAgentObs /\ UNCHANGED <<rolloutVars, wrapperVars, rewardVars, learnVars, gatherVars, trainerVars, dataVars, statsVars, scoreVars>>

SpecSpace == InitS /\ [][NextS]_vars

InitR ==
    /\ \E mapping \in PolicyMaps : IdleRolloutWith(mapping)
    /\ IdleWrapper /\ IdleSpace /\ InitReward /\ IdleLearn
    /\ IdleRest

NextR ==
    \/ RewardStep  /\ UNCHANGED <<rolloutVars, wrapperVars, spaceVars, learnVars, gatherVars, trainerVars, dataVars, statsVars, scoreVars>>
    \/ RewardReset /\ UNCHANGED <<rolloutVars, wrapperVars, spaceVars, learnVars, gatherVars, trainerVars, dataVars, statsVars, scoreVars>>

SpecReward == InitR /\ [][NextR]_vars

InitL ==
    /\ \E procs \in LearnProcs, ts \in LearnTs, mapping \in PolicyMaps :
          IdleRolloutAt(procs, ts, mapping)
    /\ IdleWrapper /\ IdleSpace /\ IdleReward /\ InitLearn
    /\ IdleRest

otherThanLearn == <<rolloutVars, wrapperVars, spaceVars, rewardVars, gatherVars, trainerVars, dataVars, statsVars, scoreVars>>

NextL ==
    \/ \E w \in Ranks : LearnWhile(w) /\ UNCHANGED otherThanLearn
    \/ \E w \in Ranks : TrainBatch(w) /\ UNCHANGED otherThanLearn
    \/ \E w \in Ranks : ActorStep(w)  /\ UNCHANGED otherThanLearn
    \/ \E w \in Ranks : CriticStep(w) /\ UNCHANGED otherThanLearn
    \/ \E w \in Ranks : KlCheck(w)    /\ UNCHANGED otherThanLearn
    \/ \E w \in Ranks : IcmBatch(w)   /\ UNCHANGED otherThanLearn
    \/ \E w \in Ranks : IcmStep(w)    /\ UNCHANGED otherThanLearn
    \/ \E w \in Ranks : LrCheck(w)    /\ UNCHANGED otherThanLearn
    \/ Collective /\ UNCHANGED otherThanLearn

SpecLearn == InitL /\ [][NextL]_vars

otherThanGather ==
    <<rolloutVars, wrapperVars, spaceVars, rewardVars, learnVars, trainerVars, dataVars, statsVars, scoreVars>>

InitG ==
    /\ IdleRollout /\ IdleWrapper /\ IdleSpace /\ IdleReward /\ IdleLearn
    /\ InitGather /\ IdleTrainer /\ IdleData /\ IdleStats /\ IdleScore

NextG ==
    \/ GatherScatter /\ UNCHANGED otherThanGather
    \/ GatherNext    /\ UNCHANGED otherThanGather

SpecGather == InitG /\ [][NextG]_vars

otherThanTrainer ==
    <<rolloutVars, wrapperVars, spaceVars, rewardVars, learnVars, gatherVars, dataVars, statsVars, scoreVars>>

InitT ==
    /\ IdleRollout /\ IdleWrapper /\ IdleSpace /\ IdleReward /\ IdleLearn
    /\ IdleGather /\ InitTrainer /\ IdleData /\ IdleStats /\ IdleScore

NextT ==
    \/ Construct      /\ UNCHANGED otherThanTrainer
    \/ TrainerRollout /\ UNCHANGED otherThanTrainer
    \/ Restore        /\ UNCHANGED otherThanTrainer
    \/ Reattach       /\ UNCHANGED otherThanTrainer
    \/ Save           /\ UNCHANGED otherThanTrainer
    \/ Restart        /\ UNCHANGED otherThanTrainer

SpecTrainer == InitT /\ [][NextT]_vars

otherThanData ==
    <<rolloutVars, wrapperVars, spaceVars, rewardVars, learnVars, gatherVars, trainerVars, statsVars, scoreVars>>

InitD ==
    /\ IdleRollout /\ IdleWrapper /\ IdleSpace /\ IdleReward /\ IdleLearn
    /\ IdleGather /\ IdleTrainer /\ InitData /\ IdleStats /\ IdleScore

NextD ==
    \/ DataLearnWhile  /\ UNCHANGED otherThanData
    \/ DataLearnReturn /\ UNCHANGED otherThanData
    \/ DataRolloutStep /\ UNCHANGED otherThanData
    \/ DataRolloutEnd  /\ UNCHANGED otherThanData
    \/ DataLoaders     /\ UNCHANGED otherThanData
    \/ DataEpoch       /\ UNCHANGED otherThanData
    \/ DataClear       /\ UNCHANGED otherThanData

SpecData == InitD /\ [][NextD]_vars

otherThanStats ==
    <<rolloutVars, wrapperVars, spaceVars, rewardVars, learnVars, gatherVars, trainerVars, dataVars, scoreVars>>

InitX ==
    /\ IdleRollout /\ IdleWrapper /\ IdleSpace /\ IdleReward /\ IdleLearn
    /\ IdleGather /\ IdleTrainer /\ IdleData /\ InitStats /\ IdleScore

NextX ==
    \/ \E w \in StatsRanks : StatsStep(w) /\ UNCHANGED otherThanStats
    \/ StatsReduce /\ UNCHANGED otherThanStats

SpecStats == InitX /\ [][NextX]_vars

otherThanScore ==
    <<rolloutVars, wrapperVars, spaceVars, rewardVars, learnVars, gatherVars,
      trainerVars, dataVars, statsVars>>

InitE ==
    /\ IdleRollout /\ IdleWrapper /\ IdleSpace /\ IdleReward /\ IdleLearn
    /\ IdleGather /\ IdleTrainer /\ IdleData /\ IdleStats /\ InitScore

NextE ==
    \/ ScoreStep  /\ UNCHANGED otherThanScore
    \/ ScoreWrite /\ UNCHANGED otherThanScore

SpecScore == InitE /\ [][NextE]_vars


(***************************************************************************)
(* Properties of the datasets (specification SpecData).                    *)
(***************************************************************************)
Reads == {"recalculate_advantages", "_ppo_batch_train", "_icm_batch_train"}

\* The lifecycle state a log of calls leads to, "bad" when a call is made
\* out of the order initialise, append, finalise, read, clear.
RECURSIVE Lifecycle(_, _)
Lifecycle(state, log) ==
    IF log = <<>> THEN state
    ELSE LET call == Head(log)
             next ==
                IF call = "initialize_dataset" /\ state \in {"none", "cleared"}
                    THEN "initialized"
                ELSE IF call = "add_episode_info" /\ state = "initialized"
                    THEN "initialized"
                ELSE IF call = "finalize_dataset" /\ state = "initialized"
                    THEN "finalized"
                ELSE IF call \in Reads /\ state = "finalized"
                    THEN "finalized"
                ELSE IF call = "clear_dataset" /\ state = "finalized"
                    THEN "cleared"
                ELSE "bad"
         IN  IF next = "bad" THEN "bad" ELSE Lifecycle(next, Tail(log))

\* C28: in every training iteration the calls made on every policy's
\* dataset follow the order initialize_dataset (rollout start),
\* add_episode_info (rollout loop only), finalize_dataset (once, rollout
\* end), the reads of the training epochs, clear_dataset: no record is
\* appended after the finalisation and no epoch reads a dataset that is
\* cleared or not finalised.
C28_DatasetLifecycle ==
    \A p \in Policies :
        /\ Lifecycle("none", datasets[p].log) = datasets[p].state
        /\ learner.at = "rollout" => datasets[p].state = "initialized"
        /\ learner.at \in {"loaders", "epoch", "clear"} =>
               datasets[p].state = "finalized"

\* C28: in the second iteration a policy with records is in its second
\* epoch, after a first iteration that trained and cleared it.
C28_Witness ==
    /\ learner.at = "epoch"
    /\ learner.iteration = 1
    /\ learner.epoch_idx = 1
    /\ \E p \in Policies :
          /\ datasets[p].records = 2
          /\ \E j, k \in 1..Len(datasets[p].log) :
                /\ j < k
                /\ datasets[p].log[j] = "clear_dataset"
                /\ datasets[p].log[k] = "_ppo_batch_train"

(***************************************************************************)
(* Properties of the rollout statistics (specification SpecStats).         *)
(***************************************************************************)
SumsAndExtremesReduced ==
    /\ general.total_episodes =
          RatSum(Local("total_episodes"), StatsRanks)
    /\ general.timesteps =
          SumOver(Local("total_rollout_ts"), StatsRanks)
    /\ \A w \in StatsRanks :
          /\ general.longest_run >= stats.local[w].longest_run
          /\ RatLeq(general.shortest_run, stats.local[w].shortest_run)
          /\ general.reward_range[1] <= stats.local[w].min_reward
          /\ general.reward_range[2] >= stats.local[w].max_reward
    /\ \E w \in StatsRanks :
          general.longest_run = stats.local[w].longest_run
    /\ \E w \in StatsRanks :
          general.shortest_run = stats.local[w].shortest_run
    /\ \E w \in StatsRanks :
          general.reward_range[1] = stats.local[w].min_reward
    /\ \E w \in StatsRanks :
          general.reward_range[2] = stats.local[w].max_reward

\* C29, as stated: the statistics written to the status are reduced across
\* the workers, total episodes and timesteps by sum, longest run by max,
\* shortest run by min, the reward range by min and max, and average run
\* as the average of the workers' average episode lengths weighted by
\* each worker's number of episodes.
C29_AverageRunWeightedByEpisodes ==
    general.written =>
        /\ SumsAndExtremesReduced
        /\ general.average_run = AverageRunWeighted

\* C29, amended: sums and extremes as stated; average run is the plain
\* mean over the workers of each worker's avg_run, every worker counting
\* the same, where a worker's avg_run is the mean length of the episodes
\* that ended in its last step with a termination (ts_per_rollout /
\* envs_per_proc if none ended).
C29_AverageRunIsMeanOverWorkers ==
    general.written =>
        /\ SumsAndExtremesReduced
        /\ RatSum([w \in StatsRanks |-> general.average_run], StatsRanks)
              = RatSum(Local("avg_run"), StatsRanks)
        /\ \A w \in StatsRanks :
              LET l == stats.local[w]
              IN  IF l.ended = <<>>
                  THEN l.avg_run = Rat(stats.ts, stats.envs)
                  ELSE \E n \in 1..Len(l.ended) :
                          l.avg_run =
                              Rat(SumOver(l.ended,
                                      (Len(l.ended) - n + 1)..Len(l.ended)),
                                  n)

\* C29: two workers completed different numbers of episodes of different
\* lengths, and the status was written.
C29_Witness ==
    /\ general.written
    /\ stats.procs = 2
    /\ Len(stats.local[1].ended) = 1
    /\ Len(stats.local[2].ended) = 2
    /\ stats.local[1].avg_run # stats.local[2].avg_run
    /\ general.average_run # AverageRunWeighted

(***************************************************************************)
(* Properties of the episode scores (specification SpecScore).             *)
(***************************************************************************)
\* C33: the scores accumulated for an episode (ep_rewards,
\* ep_nat_rewards, ep_intr_rewards) equal the sum over the steps of the
\* episode of the average, across the agents of the policy, of the step
\* reward, also for a policy shared by several agents.
C33_EpisodeScoreIsSumOfStepAverages ==
    \A f \in ScoreFields : score.ep[f] = score.step_avg[f]

\* The greatest of a non-empty set of rationals.
RatSetMax(S) == CHOOSE x \in S : \A y \in S : RatLeq(y, x)

\* C38: the top score written for a policy is the greatest natural episode
\* score (the sum of the step averages) among the episodes that ended in
\* the rollout (terminated, or open at the rollout cap), also when the
\* scores are negative and the policy is shared by several agents.
C38_TopScoreIsBestEpisodeScore ==
    score.written => score.top_score = RatSetMax(score.ended)

(***************************************************************************)
(* Properties of the rollout (specification Spec).  reported, terminated   *)
(* and flushes describe the last environment step of the running worker.   *)
(***************************************************************************)
ZeroFlushed(i) ==
    \A a \in Agents :
        [agent |-> a, env |-> i, terminal |-> TRUE,
         ending_value |-> "zeros", ending_reward |-> "zeros"] \in flushes

Bootstrapped(i) ==
    \E f \in flushes : f.env = i /\ f.ending_value = "next_value"

RoundUp(cap, batch) == ((cap + batch - 1) \div batch) * batch

\* C3, as stated: after one rollout executed by all workers the global
\* timestep counter has increased by exactly ts_per_rollout * worker_count,
\* ts_per_rollout being the configured value.  (The counter starts at 0.)
C3_TimestepsIncreaseByConfiguredTimesWorkers ==
    pc = "done" => status.timesteps = orig_ts * num_procs

\* C3, amended: after one rollout executed by all workers the global
\* timestep counter has increased by worker_count times the smallest
\* multiple of the environment batch size that is at least
\* floor(ts_per_rollout / worker_count).
C3_TimestepsIncreaseByWorkerShares ==
    pc = "done" =>
        status.timesteps =
            num_procs * RoundUp(orig_ts \div num_procs, envs_per_proc)

\* C3: a rollout of several workers has been counted.
C3_Witness ==
    /\ pc = "done"
    /\ num_procs > 1
    /\ status.timesteps > 0
    /\ status.timesteps # orig_ts * num_procs

SingleQuietRollout ==
    /\ pc = "done"
    /\ num_procs = 1
    /\ Len(agent_ids) = 1
    /\ envs_per_proc = 1
    /\ quiet

\* C4, as stated: a single-agent, single-environment rollout whose
\* environment never terminates or truncates counts exactly
\* ts_per_rollout / max_ts_per_ep episodes in "total episodes".
C4_EpisodesEqualTimestepsOverMaxTs ==
    SingleQuietRollout =>
        status.total_episodes = Rat(orig_ts, max_ts_per_ep)

\* C4, amended: a single-agent, single-environment rollout whose
\* environment never terminates or truncates counts exactly one episode:
\* the max_ts_per_ep cuts flush the trajectory but neither count an episode
\* nor reset episode_lengths, and the cap counts the one running episode.
C4_QuietRolloutCountsOneEpisode ==
    SingleQuietRollout => status.total_episodes = RatOfInt(1)

\* C4: such a rollout ran through more than one max_ts_per_ep segment.
C4_Witness ==
    /\ SingleQuietRollout
    /\ orig_ts > max_ts_per_ep
    /\ status.total_episodes = RatOfInt(1)

\* C5, as stated: total_rollout_ts never exceeds the worker's cap
\* ts_per_rollout, whatever the environment batch size.
C5_TimestepsNeverExceedCap ==
    total_rollout_ts <= ts_per_rollout

\* C5, amended: total_rollout_ts exceeds the worker's cap by less than one
\* environment batch, and does not exceed it when the batch size divides
\* the cap.
C5_TimestepsExceedCapByLessThanBatch ==
    /\ total_rollout_ts < ts_per_rollout + envs_per_proc
    /\ (ts_per_rollout % envs_per_proc = 0 =>
            total_rollout_ts <= ts_per_rollout)

\* C5: the loop has collected more timesteps than the cap.
C5_Witness ==
    /\ pc = "loop"
    /\ total_rollout_ts > ts_per_rollout

TerminatedAndTruncated(i) ==
    \A a \in Agents : reported.terminated[a][i] /\ reported.truncated[a][i]

BootstrapFlushOf(a, i) ==
    {f \in flushes : f.agent = a /\ f.env = i} =
        {[agent |-> a, env |-> i, terminal |-> FALSE,
          ending_value |-> "next_value",
          ending_reward |-> IF enable_icm[policy_mapping_fn[a]]
                            THEN "next_value_plus_surprise"
                            ELSE "next_value"]}

\* The running worker takes a step of its loop that verify_truncated lets
\* pass.
StepTaken ==
    /\ pc = "loop"
    /\ pc' = "loop"
    /\ total_rollout_ts' = total_rollout_ts + envs_per_proc

StepAttempted ==
    /\ pc = "loop"
    /\ total_rollout_ts' = total_rollout_ts + envs_per_proc
    /\ \A a, b \in Agents, i \in Envs :
          reported'.truncated[a][i] = reported'.truncated[b][i]

\* C27: whenever an index that is not terminated reaches max_ts_per_ep
\* steps in its trajectory segment, or is truncated by the environment
\* (the truncated flag of every agent is set at the index), it
\* is flushed in that step, for every agent, with terminal False, the
\* critic's value of the next critic observation as ending value and as
\* ending reward, with the surprise added to the ending reward only for
\* agents whose policy has ICM enabled, and its segment counter is 0
\* after the step.
C27_EpisodeCapAndTruncationBootstrap ==
    [][StepAttempted =>
         \A i \in Envs :
             ((\A a \in Agents : ~terminated'[a][i])
                 /\ (\/ ep_ts[i] + 1 >= max_ts_per_ep
                     \/ \A a \in Agents : reported'.truncated[a][i])) =>
                 /\ \A a \in Agents : BootstrapFlushOf(a, i)'
                 /\ ep_ts'[i] = 0]_vars

\* C30: at the rollout cap, when no episode has completed in the rollout,
\* the estimate of the average episode length is the combined length of
\* the open episodes divided by the environment batch size, which is the
\* length of each of them, so that every open index adds exactly 1 to the
\* episode count.
C30_OpenEpisodesCountOneEach ==
    [][(StepTaken /\ CapReached(total_rollout_ts')
            /\ total_episodes = RatOfInt(0)
            /\ \A a \in Agents, i \in Envs : ~terminated'[a][i]) =>
         /\ SumOver(episode_lengths', Envs) >= ts_per_rollout
         /\ \A i \in Envs :
               episode_lengths'[i] * envs_per_proc =
                   SumOver(episode_lengths', Envs)
         /\ total_episodes' = RatOfInt(envs_per_proc)]_vars

\* C30: a rollout of two environments ended at the cap after more than
\* one step with no episode completed, and counts two episodes.
C30_Witness ==
    /\ pc = "done"
    /\ quiet
    /\ envs_per_proc = 2
    /\ total_rollout_ts > envs_per_proc
    /\ total_episodes = RatOfInt(2)

\* C31: the loop of a worker stops at the first step after which the
\* collected timesteps are at least ts_per_rollout: the count is a multiple
\* of the environment batch size, the last step was taken below the limit
\* (the count exceeds the limit by less than one batch), and when the
\* rollout is over the count is the smallest such multiple that is at
\* least ts_per_rollout.
C31_LoopStopsAtFirstStepReachingLimit ==
    /\ total_rollout_ts % envs_per_proc = 0
    /\ total_rollout_ts > 0 =>
           total_rollout_ts - envs_per_proc < ts_per_rollout
    /\ pc = "done" =>
           /\ total_rollout_ts >= ts_per_rollout
           /\ \A n \in 0..total_rollout_ts :
                 (n % envs_per_proc = 0 /\ n >= ts_per_rollout) =>
                     total_rollout_ts <= n

\* C31: a rollout ended above its limit after more than one step.
C31_Witness ==
    /\ pc = "done"
    /\ total_rollout_ts > ts_per_rollout
    /\ total_rollout_ts > envs_per_proc

\* C34: after every iteration of the loop the segment counter ep_ts of
\* every index is in 0 .. max_ts_per_ep - 1 and is at most the index's
\* episode length.
C34_SegmentCounterBelowCap ==
    pc \in {"loop", "done"} =>
        \A i \in Envs :
            /\ ep_ts[i] >= 0
            /\ ep_ts[i] <= max_ts_per_ep - 1
            /\ episode_lengths[i] >= ep_ts[i]

\* C34: an episode is in its second segment, one step below the cap of
\* the segment.
C34_Witness ==
    /\ pc = "loop"
    /\ \E i \in Envs :
          /\ ep_ts[i] = max_ts_per_ep - 1
          /\ ep_ts[i] >= 1
          /\ episode_lengths[i] > ep_ts[i]

\* C35: in one step end_episodes receives an index at most once for an
\* agent: no index is flushed both as terminated and as maxed, truncated
\* or cap-reached, also when it is reported terminated and truncated at
\* once or terminates in the step that exhausts the rollout budget.
C35_FlushedAtMostOnce ==
    \A a \in Agents, i \in Envs :
        Cardinality({f \in flushes : f.agent = a /\ f.env = i}) <= 1

\* C35: in the step that exhausted the budget one index terminated and
\* was flushed as terminal, and another was reported terminated and
\* truncated at once and was flushed with the bootstrap value.
C35_Witness ==
    /\ pc = "loop"
    /\ total_rollout_ts > 0
    /\ CapReached(total_rollout_ts)
    /\ \E i, j \in Envs :
          /\ ZeroFlushed(i)
          /\ TerminatedAndTruncated(j)
          /\ \A a \in Agents : BootstrapFlushOf(a, j)

\* C36: when a rollout with ts_per_rollout >= 1 has reached its cap the
\* worker's total_episodes is positive, the divisor avg_ep_len of the cap
\* is not zero whatever the number of episodes completed before it, and
\* the total written to the status is positive.
C36_EpisodeCountPositive ==
    (pc \in {"loop", "done"} /\ ts_per_rollout >= 1
         /\ CapReached(total_rollout_ts)) =>
        /\ total_episodes[1] > 0
        /\ \A n \in 0..total_rollout_ts :
              AvgEpLen(ts_per_rollout, envs_per_proc, RatOfInt(n),
                       episode_lengths)[1] > 0
        /\ pc = "done" => status.total_episodes[1] > 0

\* C36: every index terminated in the step that reached the cap, so that
\* no open episode is left to count.
C36_Witness ==
    /\ pc = "done"
    /\ ts_per_rollout >= 1
    /\ envs_per_proc = 2
    /\ \A i \in Envs : episode_lengths[i] = 0 /\ ZeroFlushed(i)

PartiallyTruncated(i) ==
    /\ \E a \in Agents : reported.truncated[a][i]
    /\ \E a \in Agents : ~reported.truncated[a][i]

\* C10: when truncation is partial at an index (some agents truncated,
\* others not), verify_truncated fails, whichever agent is the one
\* truncated: the loop does not go on after such a step.
C10_PartialTruncationFails ==
    pc = "loop" => \A i \in Envs : ~PartiallyTruncated(i)

(***************************************************************************)
(* Properties of MultiAgentWrapper (specification SpecWrapper).            *)
(***************************************************************************)

\* C6: in every reachable state of the wrapper, the states before the first
\* step and after a hard reset included, two soft_reset() calls in a row
\* return the same cached observation and the second one does not reset the
\* underlying environment.
C6_SoftResetTwiceReturnsCache ==
    (prev_call.op = "soft_reset" /\ last_call.op = "soft_reset") =>
        /\ last_call.obs = prev_call.obs
        /\ ~last_call.env_reset

Stepped == step_out # NoStep

AllAgentsDone == \A k \in WrapperAgents : step_out.agents_done[k]

\* C7: with death masking enabled, for every done vector that is not all
\* True the step reports all_done False and every agent's flag False,
\* zeroes the observation of each done agent in every column but the
\* agent-id column (column 0, kept as it was) and leaves the others'
\* observations unchanged; when all agents are done it reports all_done
\* True and zeroes nothing.
C7_DeathMasking ==
    (death_mask /\ Stepped) =>
        IF AllAgentsDone
        THEN /\ step_out.all_done
             /\ \A k \in WrapperAgents :
                    step_out.terminal_obs[k] = step_out.refined[k]
        ELSE /\ ~step_out.all_done
             /\ \A k \in WrapperAgents :
                    /\ ~step_out.dones[k]
                    /\ step_out.obs[k][1] = step_out.refined[k][1]
                    /\ IF step_out.agents_done[k]
                       THEN \A c \in 2..Len(step_out.obs[k]) :
                                step_out.obs[k][c] = 0
                       ELSE step_out.obs[k] = step_out.refined[k]

\* C7: a step in which two of the three agents died was death-masked.
C7_Witness ==
    /\ death_mask
    /\ Stepped
    /\ step_out.agents_done = <<TRUE, TRUE, FALSE>>
    /\ step_out.refined[2][Len(step_out.refined[2])] # 0
    /\ step_out.obs[2][Len(step_out.obs[2])] = 0

\* C32: when all agents are done inside a step of the multi-agent
\* wrapper, the wrapper resets the environment within that step, returns
\* the post-reset observation as the step's observation, stores each
\* agent's pre-reset observation under "terminal observation" in the info
\* of that agent, and caches the post-reset observation for soft_reset.
C32_DoneStepResetsAndKeepsTerminalObs ==
    (last_call.op = "step" /\ step_out.all_done) =>
        /\ last_call.env_reset
        /\ step_out.obs = step_out.reset_obs
        /\ last_call.obs = step_out.reset_obs
        /\ obs_cache = step_out.reset_obs
        /\ \A k \in WrapperAgents :
              step_out.info_terminal[k] = step_out.refined[k]

\* C25: a rollout that starts with soft resets enabled starts from the
\* observation returned by the most recent step, the cached observation,
\* without resetting the underlying environment, if the environment has
\* taken a step since construction, and from a full reset if it has not;
\* with soft resets disabled it always starts from a full reset.
C25_SoftResetAtRolloutStart ==
    /\ last_call.op = "rollout_soft_reset" =>
          IF Stepped
          THEN /\ ~last_call.env_reset
               /\ last_call.obs = step_out.obs
               /\ last_call.obs = obs_cache
          ELSE last_call.env_reset
    /\ last_call.op = "rollout_reset" => last_call.env_reset

\* C25: a rollout started with soft resets right after a step in which all
\* agents were done, from the observation that step returned.
C25_Witness ==
    /\ last_call.op = "rollout_soft_reset"
    /\ prev_call.op = "step"
    /\ step_out.all_done
    /\ ~last_call.env_reset
    /\ last_call.obs = step_out.obs

(***************************************************************************)
(* Properties of _get_refined_space and _refine_obs (specification         *)
(* SpecSpace).                                                             *)
(***************************************************************************)
Constructed == refined_space.outcome # "none"

SpaceSizes == {multi_agent_space[k].size : k \in DOMAIN multi_agent_space}

BoxesOfSizes352 ==
    /\ Len(multi_agent_space) = 3
    /\ SpaceSizes = {3, 5, 2}
    /\ \A k \in DOMAIN multi_agent_space :
          /\ multi_agent_space[k].type = "Box"
          /\ multi_agent_space[k].dtype = "float32"

\* C8: for Box spaces of sizes 3, 5 and 2, in any order, _get_refined_space
\* succeeds and returns a space of size at least 5, and the refined
\* observation of the size-3 agent is zero-padded in its trailing slots.
C8_MixedSizesPadded ==
    (Constructed /\ BoxesOfSizes352) =>
        /\ refined_space.outcome = "ok"
        /\ refined_space.size >= 5
        /\ refined_obs # NoObs =>
              /\ refined_obs.ok
              /\ \A k \in DOMAIN multi_agent_space :
                    multi_agent_space[k].size = 3 =>
                        \A c \in 1..Len(refined_obs.obs[k]) :
                            c > Len(refined_obs.obs[k]) - 2 =>
                                refined_obs.obs[k][c] = 0

MixedSpaces ==
    \E j, k \in DOMAIN multi_agent_space :
        \/ multi_agent_space[j].type # multi_agent_space[k].type
        \/ multi_agent_space[j].dtype # multi_agent_space[k].dtype

\* C9: a sequence of spaces in which two agents have different space types
\* or dtypes, at whatever positions, makes _get_refined_space end in the
\* fatal group abort.
C9_MixedSpacesAbort ==
    (Constructed /\ MixedSpaces) => refined_space.outcome = "abort"

(***************************************************************************)
(* Properties of the reward pipeline (specification SpecReward).           *)
(***************************************************************************)
RewardsApplied == reward_in # NoRewardIn

IcmOf(a) == enable_icm[policy_mapping_fn[a]]

\* C12: for every agent whose policy has ICM disabled,
\* apply_intrinsic_rewards returns a reward equal to the agent's weighted
\* extrinsic reward and an intrinsic reward that is exactly zero.
C12_IcmDisabledKeepsExtrinsicReward ==
    RewardsApplied =>
        \A a \in AllAgents :
            ~IcmOf(a) =>
                /\ reward_out.reward[a] =
                       reward_in.ext_reward[a] * ext_reward_weight
                /\ reward_out.intr_reward[a] = 0

\* C12: an agent without ICM went through the pipeline with a weight other
\* than one while the ICM would have returned a reward for it.
C12_Witness ==
    /\ RewardsApplied
    /\ ext_reward_weight = 2
    /\ \E a \in AllAgents :
          /\ ~IcmOf(a)
          /\ reward_in.intrinsic[a] = 1
          /\ reward_out.reward[a] = 2 * reward_in.ext_reward[a]

NaturalOf(a) ==
    IF reward_in.info.present THEN reward_in.info.natural[a]
    ELSE reward_in.ext_reward[a]

\* C13, as stated: the training reward stored for an agent is
\* (natural reward * ext_reward_weight) + intrinsic reward, the natural
\* reward being the value under "natural reward" in the info when present
\* and the raw step reward otherwise; the reward accumulated for score
\* reporting is the natural reward, unweighted and without intrinsic term.
C13_StoredRewardIsWeightedNaturalReward ==
    RewardsApplied =>
        \A a \in AllAgents :
            /\ reward_out.stored[a] =
                   NaturalOf(a) * ext_reward_weight + reward_out.intr_reward[a]
            /\ reward_out.score_added[a] = NaturalOf(a)

\* C13, amended: the training reward stored for an agent is (the step
\* reward returned by env.step * ext_reward_weight) + intrinsic reward,
\* whether or not the info holds a "natural reward"; the reward
\* accumulated for score reporting is the natural reward (from the info
\* when present, the raw step reward otherwise), unweighted and without
\* the intrinsic term.
C13_StoredRewardIsWeightedStepReward ==
    RewardsApplied =>
        \A a \in AllAgents :
            /\ reward_out.stored[a] =
                   reward_in.ext_reward[a] * ext_reward_weight
                   + reward_out.intr_reward[a]
            /\ reward_out.score_added[a] = NaturalOf(a)

\* C13: the info held a natural reward different from the step reward, the
\* weight was not one and the ICM added an intrinsic reward.
C13_Witness ==
    /\ RewardsApplied
    /\ ext_reward_weight = 2
    /\ \E a \in AllAgents :
          /\ reward_in.info.present
          /\ reward_in.info.natural[a] # reward_in.ext_reward[a]
          /\ reward_out.intr_reward[a] = 1
          /\ reward_out.stored[a] = 2 * reward_in.ext_reward[a] + 1

(***************************************************************************)
(* Properties of learn (specification SpecLearn).  The history fields of a *)
(* worker (ppo_epochs, icm_epochs, stopped, iter_kl) describe the training *)
(* of the current iteration and are kept until the next one trains.        *)
(***************************************************************************)
PolicyIndex(p) == CHOOSE k \in 1..Len(LearnPolicies) : LearnPolicies[k] = p

Trained == {LearnPolicies[k] : k \in 1..Len(LearnPolicies)}

\* The epoch loop of policy p is behind worker record r.
EpochLoopDone(r, p) ==
    \/ r.at \in {"lr_barrier", "lr_check", "returned"}
    \/ r.at \in {"while", "rollout_reduce", "save"} /\ r.iteration >= 1
    \/ /\ r.at \in {"batch", "actor_avg", "actor_step", "critic_avg",
                    "critic_step", "batch_barrier", "ppo_reduce",
                    "epoch_barrier", "kl_check", "icm_batch", "icm_avg",
                       "icm_step", "icm_barrier", "icm_reduce"}
       /\ PolicyIndex(p) < r.policy

\* C14: if after epoch k of an iteration a policy's "kl avg" exceeds its
\* target_kl, no further PPO epoch is run for that policy in that
\* iteration; the epoch loops of the other policies run all their epochs
\* unless stopped by their own KL; learn is left only at the timestep
\* budget or when the learning rates are used up, so training goes on with
\* the next iteration.
C14_EarlyStopEndsThePolicysEpochsOnly ==
    \A w \in Ranks :
        /\ \A p \in Trained :
              /\ workers[w].stopped[p] > 0 =>
                     /\ workers[w].ppo_epochs[p] = workers[w].stopped[p]
                     /\ KlExceeds(workers[w].kl_avg[p], learn_cfg.target_kl)
              /\ (EpochLoopDone(workers[w], p) /\ workers[w].stopped[p] = 0) =>
                     workers[w].ppo_epochs[p] = learn_cfg.epochs_per_iter
        /\ workers[w].at = "returned" =>
              \/ workers[w].timesteps >= workers[w].ts_max
              \/ LrSumIsZero(workers[w])

\* C14: the first policy was stopped after its first epoch of two, the
\* second policy ran both its epochs, and the next iteration has begun.
C14_Witness ==
    /\ learn_cfg.epochs_per_iter = 2
    /\ Len(LearnPolicies) = 2
    /\ \E w \in Ranks :
          /\ workers[w].stopped["p1"] = 1
          /\ workers[w].ppo_epochs["p1"] = 1
          /\ workers[w].stopped["p2"] = 0
          /\ workers[w].ppo_epochs["p2"] = 2
          /\ workers[w].iteration = 1
          /\ workers[w].at = "rollout_reduce"

\* C15, as stated: after a KL early stop at epoch k, "kl avg" equals the
\* average of the KL values over the epochs 1..k of the iteration.
C15_KlAvgIsAverageOverCompletedEpochs ==
    \A w \in Ranks : \A p \in Trained :
        workers[w].stopped[p] > 0 =>
            workers[w].kl_avg[p] =
                Rat(workers[w].iter_kl[p][1], workers[w].iter_kl[p][2])

\* C15, amended: after a KL early stop at epoch k, "kl avg" equals the
\* average of the KL values of the minibatches of epoch k alone, over all
\* workers: _ppo_batch_train starts its totals from zero in every epoch.
C15_KlAvgIsAverageOfLastEpoch ==
    \A w \in Ranks : \A p \in Trained :
        workers[w].stopped[p] > 0 =>
            workers[w].kl_avg[p] = workers[w].epoch_avg[p]

\* C15: a policy was stopped after its second epoch with a "kl avg" that
\* is not the average over both epochs.
C15_Witness ==
    \E w \in Ranks : \E p \in Trained :
        /\ workers[w].stopped[p] = 2
        /\ workers[w].kl_avg[p] = workers[w].epoch_avg[p]
        /\ workers[w].kl_avg[p] #
               Rat(workers[w].iter_kl[p][1], workers[w].iter_kl[p][2])

\* A worker waits in a collective that another worker will never enter.
BlockedForever ==
    /\ Running
    /\ \E w, v \in Ranks :
          /\ workers[w].at \in CollectiveSites
          /\ \/ workers[v].at \in {"crashed", "returned"}
             \/ /\ \A u \in Ranks : workers[u].at \in CollectiveSites
                /\ workers[v].at # workers[w].at

\* C16: in every execution of learn all workers issue the same sequence of
\* collective calls, no worker leaving one out because of a condition it
\* computed locally, so that no worker blocks forever inside a collective.
C16_NoWorkerBlocksForever == ~BlockedForever

\* C17, as stated: the break of the KL early stop is taken only after
\* every collective of that epoch index has completed on the worker: the
\* PPO gradient averaging, barriers and statistic reductions, and the
\* collectives of the ICM update.
C17_BreakAfterAllCollectivesOfTheEpoch ==
    \A w \in Ranks : \A p \in Trained :
        workers[w].stopped[p] > 0 =>
            /\ workers[w].ppo_epochs[p] = workers[w].stopped[p]
            /\ learn_cfg.enable_icm[p] =>
                  workers[w].icm_epochs[p] = workers[w].stopped[p]

\* C17, amended: the break of the KL early stop at epoch k is taken after
\* the PPO collectives of that epoch (gradient averaging, minibatch
\* barriers, statistic reductions, the barrier of line 1487) and before
\* the ICM update of that epoch, which is not run: the ICM model has been
\* trained k - 1 times.  "kl avg" being the result of an allreduce, every
\* worker takes the break at the same epoch.
C17_BreakAfterPpoCollectivesBeforeIcm ==
    \A w \in Ranks : \A p \in Trained :
        workers[w].stopped[p] > 0 =>
            /\ workers[w].ppo_epochs[p] = workers[w].stopped[p]
            /\ workers[w].icm_epochs[p] =
                  IF learn_cfg.enable_icm[p]
                  THEN workers[w].stopped[p] - 1 ELSE 0
            /\ \A v \in Ranks :
                  \/ workers[v].stopped[p] = workers[w].stopped[p]
                  \/ /\ workers[v].at = "kl_check"
                     /\ CurPolicy(workers[v]) = p
                     /\ workers[v].epoch_idx + 1 = workers[w].stopped[p]

\* C17: a policy with ICM was stopped after its second epoch, its ICM
\* model having been trained once.
C17_Witness ==
    \E w \in Ranks : \E p \in Trained :
        /\ learn_cfg.enable_icm[p]
        /\ workers[w].stopped[p] = 2
        /\ workers[w].icm_epochs[p] = 1

\* C37: for a policy with ICM enabled, the ICM update runs once after
\* each PPO epoch that did not trigger the KL early stop and never in the
\* epoch that triggered it: after a stop at epoch k the PPO update has run
\* k times and the ICM update k - 1 times; without a stop both have run
\* epochs_per_iter times when the epoch loop of the policy is left; and at
\* any moment the ICM update has run as often as the PPO update or once
\* less.
C37_IcmOncePerEpochNotStopped ==
    \A w \in Ranks : \A p \in Trained :
        learn_cfg.enable_icm[p] =>
            /\ workers[w].icm_epochs[p] <= workers[w].ppo_epochs[p]
            /\ workers[w].ppo_epochs[p] <= workers[w].icm_epochs[p] + 1
            /\ workers[w].stopped[p] > 0 =>
                  /\ workers[w].ppo_epochs[p] = workers[w].stopped[p]
                  /\ workers[w].icm_epochs[p] = workers[w].stopped[p] - 1
            /\ (EpochLoopDone(workers[w], p) /\ workers[w].stopped[p] = 0) =>
                  /\ workers[w].ppo_epochs[p] = learn_cfg.epochs_per_iter
                  /\ workers[w].icm_epochs[p] = learn_cfg.epochs_per_iter

\* C37: of two policies with ICM, the first was stopped in its first epoch
\* and its ICM model was not trained, the second ran two PPO epochs and
\* two ICM updates without a stop.
C37_Witness ==
    /\ learn_cfg.epochs_per_iter = 2
    /\ Len(LearnPolicies) = 2
    /\ \A p \in Trained : learn_cfg.enable_icm[p]
    /\ \E w \in Ranks :
          /\ workers[w].stopped[LearnPolicies[1]] = 1
          /\ workers[w].ppo_epochs[LearnPolicies[1]] = 1
          /\ workers[w].icm_epochs[LearnPolicies[1]] = 0
          /\ workers[w].stopped[LearnPolicies[2]] = 0
          /\ workers[w].ppo_epochs[LearnPolicies[2]] = 2
          /\ workers[w].icm_epochs[LearnPolicies[2]] = 2
          /\ workers[w].at = "lr_check"

\* C39: after each PPO epoch status[policy]["kl avg"] has the same value
\* on every worker, being computed from the reduced KL sum and the reduced
\* minibatch count, so that all workers take the same early-stop decision
\* at the same epoch index for the same policy: when a worker has stopped
\* a policy at epoch k, every other worker has stopped it at epoch k too
\* or stands before the KL test of epoch k with a "kl avg" above target_kl.
C39_KlAvgAndStopAgreeAcrossWorkers ==
    \A w \in Ranks : \A v \in Ranks : \A p \in Trained :
        /\ workers[w].kl_avg[p] = workers[v].kl_avg[p]
        /\ workers[w].stopped[p] > 0 =>
              \/ workers[v].stopped[p] = workers[w].stopped[p]
              \/ /\ workers[v].at = "kl_check"
                 /\ CurPolicy(workers[v]) = p
                 /\ workers[v].epoch_idx + 1 = workers[w].stopped[p]
                 /\ KlExceeds(workers[v].kl_avg[p], learn_cfg.target_kl)
        /\ (EpochLoopDone(workers[w], p) /\ EpochLoopDone(workers[v], p)) =>
              workers[w].stopped[p] = workers[v].stopped[p]

\* C39: two workers whose own KL sums differ have passed the KL test of
\* the same epoch with the same "kl avg" and the same decision (no stop),
\* where one of them would have stopped on the average of its own sum.
C39_Witness ==
    /\ num_procs = 2
    /\ \E p \in Trained :
          /\ workers[1].at = "lr_barrier"
          /\ workers[2].at = "lr_barrier"
          /\ CurPolicy(workers[1]) = p
          /\ workers[1].ppo_epochs[p] = 1
          /\ workers[2].ppo_epochs[p] = 1
          /\ workers[1].stopped[p] = 0
          /\ workers[2].stopped[p] = 0
          /\ workers[1].kl_avg[p] = workers[2].kl_avg[p]
          /\ workers[1].counter > 0
          /\ workers[2].counter > 0
          /\ KlExceeds(Rat(workers[1].total_kl, workers[1].counter),
                       learn_cfg.target_kl)
          /\ ~KlExceeds(Rat(workers[2].total_kl, workers[2].counter),
                        learn_cfg.target_kl)

ExpectedOps(model) ==
    <<"zero_grad", "backward", "avg">>
    \o (IF learn_cfg.gradient_clip /\ model # "icm" THEN <<"clip">> ELSE <<>>)
    \o <<"step">>

IsPrefix(a, b) == Len(a) <= Len(b) /\ a = SubSeq(b, 1, Len(a))

SameMinibatch(r, q) ==
    /\ r.iteration = q.iteration
    /\ r.policy    = q.policy
    /\ r.epoch_idx = q.epoch_idx
    /\ r.batch     = q.batch

\* C19: if a minibatch yields NaN or Inf ratios, or a NaN advantage std
\* with advantage normalisation enabled, the worker aborts the whole group
\* before any optimizer step is taken for that minibatch: the aborting
\* worker has updated no network from it, and a worker in the same
\* minibatch is at most as far as the averaging of the actor's gradients.
C19_AbortBeforeAnyOptimizerStep ==
    group.state = "aborted" =>
        /\ workers[group.by].at = "aborted"
        /\ \A v \in Ranks :
              /\ workers[v].updated = {}
              /\ SameMinibatch(workers[v], workers[group.by]) =>
                    workers[v].at \in {"aborted", "batch", "actor_avg"}

\* C19: a worker aborted the group in a minibatch of the second epoch
\* while another worker, in the same minibatch, was waiting for the
\* averaging of the actor's gradients.
C19_Witness ==
    /\ group.state = "aborted"
    /\ workers[group.by].epoch_idx = 1
    /\ \E v \in Ranks :
          /\ workers[v].at = "actor_avg"
          /\ SameMinibatch(workers[v], workers[group.by])

\* C20: learn returns for every positive budget and every configuration,
\* at the first iteration after which the timesteps have reached the
\* budget or when the learning rates are used up, every iteration
\* strictly increasing the timestep count: here, that once the rollout of
\* an iteration is reduced the count is above what it was before.
C20_EveryIterationAddsTimesteps ==
    \A w \in Ranks :
        workers[w].at \notin {"while", "rollout_reduce", "returned",
                              "crashed", "aborted"} =>
            workers[w].timesteps > workers[w].ts_before


(***************************************************************************)
(* Properties of the batching of observations (specification SpecGather).  *)
(***************************************************************************)
Gathered == gather_out.called /\ gather_out.batches.ok

\* The places of agent a in the orderings: policy and row.
PlacesOf(a) ==
    {pk \in gather_in.policies \X (1..Len(GatherAgents)) :
        /\ pk[2] <= Len(gather_out.batches.policy_agents[pk[1]])
        /\ gather_out.batches.policy_agents[pk[1]][pk[2]] = a}

\* C21: get_policy_batches groups the agent ids of the dictionary by
\* policy_mapping_fn; agent a's observation is row i of a policy's batch
\* exactly when a is entry i of that policy's ordering; every agent id is
\* in exactly one ordering, at one place, that of its policy; and
\* get_policy_actions and get_policy_values return to every agent id the
\* result computed by its policy's network from its own observations.
C21_ScatterInvertsGather ==
    Gathered =>
        /\ \A a \in KeysOf(gather_in.obs) :
              /\ Cardinality(PlacesOf(a)) = 1
              /\ \A pk \in PlacesOf(a) : pk[1] = gather_in.mapping[a]
        /\ \A p \in gather_in.policies :
              /\ Len(gather_out.batches.policy_batches[p]) =
                     Len(gather_out.batches.policy_agents[p])
              /\ \A i \in 1..Len(gather_out.batches.policy_batches[p]) :
                 \A a \in KeysOf(gather_in.obs) :
                    (gather_out.batches.policy_batches[p][i] =
                         gather_in.obs.rows[a])
                    <=> (gather_out.batches.policy_agents[p][i] = a)
        /\ DOMAIN gather_out.actions = KeysOf(gather_in.obs)
        /\ DOMAIN gather_out.values  = KeysOf(gather_in.obs)
        /\ \A a \in KeysOf(gather_in.obs) :
              /\ gather_out.actions[a] =
                    [e \in 1..gather_in.envs |->
                        Actor(gather_in.mapping[a], ObsValue(a, e))]
              /\ gather_out.values[a] =
                    [e \in 1..gather_in.envs |->
                        Critic(gather_in.mapping[a], ObsValue(a, e))]

\* C21: two environments, two policies, and a policy with two agents whose
\* order in the dictionary is not their order among the agents.
C21_Witness ==
    /\ Gathered
    /\ gather_in.envs = 2
    /\ gather_in.obs.order = <<"a3", "a2", "a1">>
    /\ gather_out.batches.policy_agents =
           [p \in {"p1", "p2"} |->
               IF p = "p1" THEN <<"a3", "a1">> ELSE <<"a2">>]

(***************************************************************************)
(* Properties of the trainer object (specification SpecTrainer).           *)
(***************************************************************************)

\* C22: a PPO object restored from its pickled state has no environment
\* until one is attached, and a rollout called on it without one aborts
\* the worker group before a dataset is initialised, the environment is
\* reset or stepped, or the status is changed: the aborted call has left
\* no trace but the abort.
C22_RolloutWithoutEnvAbortsFirst ==
    /\ (trainer.restored /\ ~trainer.reattached) => ~trainer.has_env
    /\ trainer.abort_at = "rollout" =>
          /\ trainer.restored
          /\ ~trainer.has_env
          /\ trainer.phase = "aborted"
          /\ trainer.dataset_inits  = trainer.rollout_calls - 1
          /\ trainer.env_resets     = trainer.rollout_calls - 1
          /\ trainer.status_updates = trainer.rollout_calls - 1

\* C22: a trainer that had finished a rollout was pickled and restored, and
\* the second rollout, on the restored object, aborted.
C22_Witness ==
    /\ trainer.abort_at = "rollout"
    /\ trainer.rollout_calls = 2
    /\ trainer.dataset_inits = 1

BadArguments ==
    \/ run.save_when \notin {"None", "ChangeInStateScheduler"}
    \/ run.soft_resets \notin {"bool", "LinearStepScheduler"}

\* C23: constructing the trainer with a save_when that is neither None nor
\* a ChangeInStateScheduler, or with a soft_resets that is neither a bool
\* nor a LinearStepScheduler, aborts at construction time and never
\* reaches the first rollout; a save_when of None is replaced by the
\* scheduler on the iteration counter.
C23_BadArgumentsAbortConstruction ==
    /\ (trainer.phase # "args" /\ BadArguments) =>
          /\ trainer.phase = "aborted"
          /\ trainer.abort_at = "construction"
          /\ trainer.rollout_calls = 0
    /\ (trainer.phase = "ready" /\ run.save_when = "None") =>
          trainer.save_when = "ChangeInStateScheduler(iteration)"

Loaded == trainer.loaded # <<>>

\* C24, as stated: when a checkpoint saved with N workers is loaded with a
\* different number of workers, every worker loads rank 0's status file.
C24_EveryWorkerLoadsRankZero ==
    (Loaded /\ trainer.saved_procs # run.procs) =>
        \A r \in TrainerRanks : trainer.loaded[r] = 0

\* C24, amended: outside test mode a worker loads the status file of its
\* own rank whenever state_path holds one, in particular every worker of
\* rank below N, and rank 0's status file only when there is none for its
\* rank; in test mode every worker loads rank 0's.
C24_WorkerLoadsOwnFileIfPresent ==
    Loaded =>
        \A r \in TrainerRanks :
            /\ run.test_mode => trainer.loaded[r] = 0
            /\ (~run.test_mode /\ r \in trainer.on_disk) =>
                  trainer.loaded[r] = r
            /\ (~run.test_mode /\ r < trainer.saved_procs) =>
                  trainer.loaded[r] = r
            /\ r \notin trainer.on_disk => trainer.loaded[r] = 0

\* C24: a checkpoint saved by two workers was loaded by three: ranks 0 and
\* 1 loaded their own files, rank 2 rank 0's.
C24_Witness ==
    /\ Loaded
    /\ ~run.test_mode
    /\ run.procs = 3
    /\ trainer.saved_procs = 2
    /\ trainer.on_disk = {0, 1}
    /\ trainer.loaded = [r \in 0..2 |-> IF r = 1 THEN 1 ELSE 0]
====
